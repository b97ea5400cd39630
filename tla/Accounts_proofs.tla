--------------------------- MODULE Accounts_proofs ---------------------------
(***************************************************************************)
(* Proofs about Accounts, for any number of requests, browsers, codes and   *)
(* links: a session that works belongs to the password of today, and a code *)
(* or link is accepted once.                                                *)
(***************************************************************************)
EXTENDS MCAttendee, TLAPS, FiniteSetTheorems

-----------------------------------------------------------------------------
(* What the rows and the requests are.                                     *)

Word == Passwords \cup {NoPassword}
Account == [there : BOOLEAN, password : Word, version : Nat, suspended : BOOLEAN,
            verified : BOOLEAN]
Stages == {"rest", "create", "supersede", "store", "mailCode", "claimCode", "miss",
           "verify", "invite", "link", "mailLink", "claimLink", "setPassword", "compare"}
Request == [at : Stages, flow : Flows \cup {Rest.flow}, password : Word,
            read : Account, num : Nat]
CodeRow == [flow : Flows, state : {"live", "used", "superseded", "expired"},
            attempts : Nat, accepted : {0, 1}]
LinkRow == [state : {"live", "used", "expired"}, accepted : {0, 1}]

PostType == post \in [Posts -> Request]

\* A request that will store a code knows its browser; one that will store a
\* password has one.
PostInv ==
    /\ PostType
    /\ \A c \in Posts :
          /\ post[c].at \in {"create", "supersede", "store"} => post[c].flow \in Flows
          /\ post[c].at \in {"create", "claimLink", "setPassword", "compare"} =>
                post[c].password \in Passwords

\* Rows are numbered from one; a live row has not been accepted yet.
CodesInv ==
    /\ \E m \in Nat : codes \in [1..m -> CodeRow]
    /\ \A n \in DOMAIN codes : codes[n].state = "live" => codes[n].accepted = 0
LinksInv ==
    /\ \E m \in Nat : links \in [1..m -> LinkRow]
    /\ \A n \in DOMAIN links : links[n].state = "live" => links[n].accepted = 0

\* A version names one password: the tokens issued, and the rows that sign-ins
\* have read and still compare, agree with the account where their version does.
SessionsInv ==
    /\ account \in Account
    /\ tokens \subseteq [version : 0..account.version, password : Passwords]
    /\ \A t \in tokens : t.version = account.version => t.password = account.password
    /\ \A c \in Posts : post[c].at = "compare" =>
          /\ post[c].read.version <= account.version
          /\ post[c].read.version = account.version =>
                post[c].read.password = account.password
    /\ ~account.there => tokens = {} /\ \A c \in Posts : post[c].at # "compare"

IInv == PostInv /\ CodesInv /\ LinksInv /\ SessionsInv

LEMMA NoAccountIs == NoAccount \in Account /\ ~NoAccount.there /\ NoAccount.version = 0
  BY DEF NoAccount, Account, Word

LEMMA RestIs == Rest \in Request /\ Rest.at = "rest"
  <1>1. Rest.flow \in Flows \cup {Rest.flow}
    OBVIOUS
  <1>2. Rest.at = "rest" /\ Rest.password = NoPassword /\ Rest.read = NoAccount /\ Rest.num = 0
    BY DEF Rest
  <1>3. Rest = [at |-> Rest.at, flow |-> Rest.flow, password |-> Rest.password,
                read |-> Rest.read, num |-> Rest.num]
    BY DEF Rest
  <1>4. QED
    BY <1>1, <1>2, <1>3, NoAccountIs DEF Request, Stages, Word

LEMMA InitInv == AccountsInit => IInv
  <1> SUFFICES ASSUME AccountsInit PROVE IInv
    OBVIOUS
  <1>1. PostInv
    BY RestIs DEF AccountsInit, PostInv, PostType
  <1>2. CodesInv /\ LinksInv
    <2>1. <<>> \in [1..0 -> CodeRow] /\ <<>> \in [1..0 -> LinkRow]
      OBVIOUS
    <2>2. QED
      BY <2>1 DEF AccountsInit, CodesInv, LinksInv
  <1>3. SessionsInv
    BY RestIs, NoAccountIs DEF AccountsInit, SessionsInv
  <1>4. QED
    BY <1>1, <1>2, <1>3 DEF IInv
-----------------------------------------------------------------------------
(* What a step does to the requests.                                       *)

\* Nobody reads the account row in this step: who compares, compared before.
ComparesKept ==
    \A d \in Posts : post'[d].at = "compare" =>
        post[d].at = "compare" /\ post'[d].read = post[d].read

LEMMA OverPost ==
    ASSUME PostInv, NEW c \in Posts, Over(c)
    PROVE  PostInv' /\ ComparesKept
  BY RestIs DEF PostInv, PostType, Over, ComparesKept

LEMMA NowPost ==
    ASSUME PostInv, NEW c \in Posts, NEW at \in Stages, Now(c, at),
           at \in {"supersede", "store"} => post[c].flow \in Flows,
           at = "setPassword" => post[c].password \in Passwords,
           at \notin {"create", "claimLink", "compare"}
    PROVE  PostInv' /\ ComparesKept
  <1> DEFINE r == [post[c] EXCEPT !.at = at]
  <1>1. r \in Request /\ r.at = at /\ r.flow = post[c].flow /\ r.password = post[c].password
    BY DEF PostInv, PostType, Request
  <1>2. post' = [post EXCEPT ![c] = r]
    BY DEF Now
  <1> HIDE DEF r
  <1>3. QED
    BY <1>1, <1>2 DEF PostInv, PostType, ComparesKept

\* The request that goes on to mail what it has just numbered.
LEMMA NumberedPost ==
    ASSUME PostInv, NEW c \in Posts, NEW at \in {"mailCode", "mailLink"}, NEW n \in Nat,
           post' = [post EXCEPT ![c].at = at, ![c].num = n]
    PROVE  PostInv' /\ ComparesKept
  <1> DEFINE r == [post[c] EXCEPT !.at = at, !.num = n]
  <1>1. r \in Request /\ r.at = at
    BY DEF PostInv, PostType, Request, Stages
  <1>2. post' = [post EXCEPT ![c] = r]
    OBVIOUS
  <1> HIDE DEF r
  <1>3. QED
    BY <1>1, <1>2 DEF PostInv, PostType, ComparesKept

LEMMA StartPost ==
    ASSUME PostInv, NEW c \in Posts, NEW r \in Request, Start(c, r),
           r.at \in {"create", "supersede", "store"} => r.flow \in Flows,
           r.at \in {"create", "claimLink", "setPassword", "compare"} =>
               r.password \in Passwords
    PROVE  PostInv' /\ (r.at # "compare" => ComparesKept)
  BY DEF PostInv, PostType, Start, ComparesKept

\* Every action of a request but the one that signs in.
OtherThanSignIn(c) ==
    \/ SignUp(c) \/ CreateAccount(c) \/ Resend(c) \/ Supersede(c) \/ StoreCode(c)
    \/ MailCode(c) \/ CheckCode(c) \/ Miss(c) \/ ClaimCode(c) \/ Verify(c)
    \/ Invite(c) \/ CreateInvited(c) \/ Forgot(c) \/ StoreLink(c) \/ MailLink(c)
    \/ ResetPassword(c) \/ ClaimLink(c) \/ SetPassword(c) \/ IssueToken(c) \/ Leave(c)

LEMMA NumbersAreNatural ==
    ASSUME CodesInv, LinksInv
    PROVE  /\ DOMAIN codes \subseteq Nat /\ Cardinality(DOMAIN codes) \in Nat
           /\ DOMAIN links \subseteq Nat /\ Cardinality(DOMAIN links) \in Nat
  <1>1. ASSUME NEW m \in Nat
        PROVE  1..m \subseteq Nat /\ Cardinality(1..m) \in Nat
    BY FS_Interval, FS_CardinalityType
  <1>2. QED
    BY <1>1 DEF CodesInv, LinksInv

LEMMA PostsKept ==
    ASSUME PostInv, CodesInv, LinksInv, NEW c \in Posts, OtherThanSignIn(c)
    PROVE  PostInv' /\ ComparesKept
  <1>1. CASE SignUp(c)
    <2>1. PICK f \in Flows, p \in Passwords :
             Start(c, [Rest EXCEPT !.at = IF account.there THEN "rest" ELSE "create",
                                   !.flow = f, !.password = p])
      BY <1>1 DEF SignUp
    <2> DEFINE at == IF account.there THEN "rest" ELSE "create"
               r == [Rest EXCEPT !.at = at, !.flow = f, !.password = p]
    <2>2. at \in Stages /\ at # "compare"
      BY DEF Stages
    <2> HIDE DEF at
    <2>3. r \in Request /\ r.at = at /\ r.flow = f /\ r.password = p
      BY <2>2, RestIs DEF Request, Word
    <2>4. Start(c, r)
      BY <2>1 DEF at
    <2> HIDE DEF r
    <2>5. QED
      BY <2>2, <2>3, <2>4, StartPost
  <1>2. CASE CheckCode(c)
    <2>1. PICK typed \in {0} \cup DOMAIN codes, newest \in DOMAIN codes :
             Start(c, [Rest EXCEPT !.at = IF typed = newest THEN "claimCode" ELSE "miss",
                                   !.num = newest])
      BY <1>2 DEF CheckCode, Candidates, Live
    <2> DEFINE at == IF typed = newest THEN "claimCode" ELSE "miss"
               r == [Rest EXCEPT !.at = at, !.num = newest]
    <2>2. at \in {"claimCode", "miss"}
      OBVIOUS
    <2>3. newest \in Nat
      BY NumbersAreNatural
    <2> HIDE DEF at
    <2>4. r \in Request /\ r.at = at
      BY <2>2, <2>3, RestIs DEF Request, Stages
    <2>5. Start(c, r)
      BY <2>1 DEF at
    <2> HIDE DEF r
    <2>6. QED
      BY <2>2, <2>4, <2>5, StartPost
  <1>3. CASE Resend(c)
    <2>1. PICK f \in Flows : Start(c, [Rest EXCEPT !.at = "supersede", !.flow = f])
      BY <1>3 DEF Resend
    <2> DEFINE r == [Rest EXCEPT !.at = "supersede", !.flow = f]
    <2>2. r \in Request /\ r.at = "supersede" /\ r.flow = f
      BY RestIs DEF Request, Stages
    <2> HIDE DEF r
    <2>3. QED
      BY <2>1, <2>2, StartPost DEF r
  <1>4. CASE Invite(c) \/ Forgot(c)
    <2>1. PICK at \in {"rest", "invite", "link"} : Start(c, [Rest EXCEPT !.at = at])
      BY <1>4 DEF Invite, Forgot
    <2> DEFINE r == [Rest EXCEPT !.at = at]
    <2>2. r \in Request /\ r.at = at
      BY RestIs DEF Request, Stages
    <2> HIDE DEF r
    <2>3. QED
      BY <2>1, <2>2, StartPost DEF r
  <1>5. CASE ResetPassword(c)
    <2>1. PICK n \in DOMAIN links, p \in Passwords :
             Start(c, [Rest EXCEPT !.at = "claimLink", !.num = n, !.password = p])
      BY <1>5 DEF ResetPassword
    <2> DEFINE r == [Rest EXCEPT !.at = "claimLink", !.num = n, !.password = p]
    <2>2. r \in Request /\ r.at = "claimLink" /\ r.password = p
      BY RestIs, NumbersAreNatural DEF Request, Stages, Word
    <2> HIDE DEF r
    <2>3. QED
      BY <2>1, <2>2, StartPost DEF r
  <1>6. CASE \/ MailCode(c) \/ Miss(c) \/ Verify(c) \/ MailLink(c) \/ SetPassword(c)
             \/ IssueToken(c) \/ Leave(c)
    <2>1. Over(c)
      BY <1>6 DEF MailCode, Miss, Verify, MailLink, SetPassword, IssueToken, Leave
    <2>2. QED
      BY <2>1, OverPost
  <1>7. CASE StoreCode(c) \/ StoreLink(c)
    <2>1. CASE StoreCode(c)
      <3> DEFINE n == Cardinality(DOMAIN codes) + 1
      <3>1. n \in Nat
        BY NumbersAreNatural
      <3>2. post' = [post EXCEPT ![c].at = "mailCode", ![c].num = n]
        BY <2>1 DEF StoreCode
      <3> HIDE DEF n
      <3>3. QED
        BY <3>1, <3>2, NumberedPost
    <2>2. CASE StoreLink(c)
      <3> DEFINE n == Cardinality(DOMAIN links) + 1
      <3>1. n \in Nat
        BY NumbersAreNatural
      <3>2. post' = [post EXCEPT ![c].at = "mailLink", ![c].num = n]
        BY <2>2 DEF StoreLink
      <3> HIDE DEF n
      <3>3. QED
        BY <3>1, <3>2, NumberedPost
    <2>3. QED
      BY <1>7, <2>1, <2>2
  <1>8. CASE CreateAccount(c) \/ Supersede(c) \/ ClaimCode(c) \/ CreateInvited(c) \/ ClaimLink(c)
    <2>1. \/ Over(c) \/ Now(c, "verify") \/ Now(c, "link")
          \/ Now(c, "supersede") /\ post[c].at = "create"
          \/ Now(c, "store") /\ post[c].at = "supersede"
          \/ Now(c, "setPassword") /\ post[c].at = "claimLink"
      BY <1>8 DEF CreateAccount, Supersede, ClaimCode, CreateInvited, ClaimLink, Is
    <2>2. {"verify", "link", "supersede", "store", "setPassword"} \subseteq Stages
      BY DEF Stages
    <2>3. QED
      BY <2>1, <2>2, OverPost, NowPost DEF PostInv
  <1>9. QED
    BY <1>1, <1>2, <1>3, <1>4, <1>5, <1>6, <1>7, <1>8 DEF OtherThanSignIn

\* The sign-in remembers the row it read.
LEMMA SignInPost ==
    ASSUME PostInv, account \in Account, NEW c \in Posts, SignIn(c)
    PROVE  /\ PostInv' /\ account.there
           /\ \A d \in Posts : post'[d].at = "compare" =>
                 \/ post'[d].read = account
                 \/ post[d].at = "compare" /\ post'[d].read = post[d].read
           /\ UNCHANGED <<account, codes, links, inbox, tokens>>
  <1>1. PICK p \in Passwords :
           Start(c, [Rest EXCEPT !.at = "compare", !.password = p, !.read = account])
    BY DEF SignIn
  <1> DEFINE r == [Rest EXCEPT !.at = "compare", !.password = p, !.read = account]
  <1>2. r \in Request /\ r.at = "compare" /\ r.password = p /\ r.read = account
    BY RestIs DEF Request, Stages, Word
  <1> HIDE DEF r
  <1>3. Start(c, r)
    BY <1>1 DEF r
  <1>4. PostInv'
    BY <1>2, <1>3, StartPost
  <1>5. QED
    BY <1>2, <1>3, <1>4 DEF SignIn, Start, PostInv, PostType
-----------------------------------------------------------------------------
(* What a step does to the codes and the links.                            *)

\* The codes change by one more, by none, or each by a write that spends it.
CodesStepIs ==
    \/ UNCHANGED codes
    \/ \E r \in CodeRow :
          /\ r.accepted = 0
          /\ codes' = [k \in 1..(Cardinality(DOMAIN codes) + 1) |->
                          IF k = Cardinality(DOMAIN codes) + 1 THEN r ELSE codes[k]]
    \/ /\ codes' \in [DOMAIN codes -> CodeRow]
       /\ \A n \in DOMAIN codes : codes'[n].state = "live" =>
             codes[n].state = "live" /\ codes'[n].accepted = codes[n].accepted

LEMMA CodesKept ==
    ASSUME CodesInv, CodesStepIs
    PROVE  CodesInv'
  <1>1. PICK m \in Nat : codes \in [1..m -> CodeRow]
    BY DEF CodesInv
  <1>2. CASE UNCHANGED codes
    BY <1>2 DEF CodesInv
  <1>3. ASSUME NEW r \in CodeRow, r.accepted = 0,
               codes' = [k \in 1..(Cardinality(DOMAIN codes) + 1) |->
                           IF k = Cardinality(DOMAIN codes) + 1 THEN r ELSE codes[k]]
        PROVE  CodesInv'
    <2>1. Cardinality(DOMAIN codes) = m
      BY <1>1, FS_Interval
    <2>2. codes' = [k \in 1..(m + 1) |-> IF k = m + 1 THEN r ELSE codes[k]]
      BY <1>3, <2>1
    <2>3. \A k \in 1..(m + 1) : k = m + 1 \/ k \in 1..m
      OBVIOUS
    <2>4. codes' \in [1..(m + 1) -> CodeRow]
      BY <1>1, <2>2, <2>3
    <2>5. \A k \in 1..(m + 1) : codes'[k].state = "live" => codes'[k].accepted = 0
      BY <1>1, <1>3, <2>2, <2>3 DEF CodesInv
    <2>6. DOMAIN codes' = 1..(m + 1) /\ m + 1 \in Nat
      BY <2>2
    <2>7. QED
      BY <2>4, <2>5, <2>6 DEF CodesInv
  <1>4. CASE /\ codes' \in [DOMAIN codes -> CodeRow]
             /\ \A n \in DOMAIN codes : codes'[n].state = "live" =>
                   codes[n].state = "live" /\ codes'[n].accepted = codes[n].accepted
    BY <1>1, <1>4 DEF CodesInv
  <1>5. QED
    BY <1>2, <1>3, <1>4 DEF CodesStepIs

LinksStepIs ==
    \/ UNCHANGED links
    \/ \E r \in LinkRow :
          /\ r.accepted = 0
          /\ links' = [k \in 1..(Cardinality(DOMAIN links) + 1) |->
                          IF k = Cardinality(DOMAIN links) + 1 THEN r ELSE links[k]]
    \/ /\ links' \in [DOMAIN links -> LinkRow]
       /\ \A n \in DOMAIN links : links'[n].state = "live" =>
             links[n].state = "live" /\ links'[n].accepted = links[n].accepted

LEMMA LinksKept ==
    ASSUME LinksInv, LinksStepIs
    PROVE  LinksInv'
  <1>1. PICK m \in Nat : links \in [1..m -> LinkRow]
    BY DEF LinksInv
  <1>2. CASE UNCHANGED links
    BY <1>2 DEF LinksInv
  <1>3. ASSUME NEW r \in LinkRow, r.accepted = 0,
               links' = [k \in 1..(Cardinality(DOMAIN links) + 1) |->
                           IF k = Cardinality(DOMAIN links) + 1 THEN r ELSE links[k]]
        PROVE  LinksInv'
    <2>1. Cardinality(DOMAIN links) = m
      BY <1>1, FS_Interval
    <2>2. links' = [k \in 1..(m + 1) |-> IF k = m + 1 THEN r ELSE links[k]]
      BY <1>3, <2>1
    <2>3. \A k \in 1..(m + 1) : k = m + 1 \/ k \in 1..m
      OBVIOUS
    <2>4. links' \in [1..(m + 1) -> LinkRow]
      BY <1>1, <2>2, <2>3
    <2>5. \A k \in 1..(m + 1) : links'[k].state = "live" => links'[k].accepted = 0
      BY <1>1, <1>3, <2>2, <2>3 DEF LinksInv
    <2>6. DOMAIN links' = 1..(m + 1) /\ m + 1 \in Nat
      BY <2>2
    <2>7. QED
      BY <2>4, <2>5, <2>6 DEF LinksInv
  <1>4. CASE /\ links' \in [DOMAIN links -> LinkRow]
             /\ \A n \in DOMAIN links : links'[n].state = "live" =>
                   links[n].state = "live" /\ links'[n].accepted = links[n].accepted
    BY <1>1, <1>4 DEF LinksInv
  <1>5. QED
    BY <1>2, <1>3, <1>4 DEF LinksStepIs
\* No other action touches the codes, or the links.
LEMMA CodesChange ==
    ASSUME IInv, [AccountsNext]_accountsVars
    PROVE  CodesStepIs
  <1>1. PICK m \in Nat : codes \in [1..m -> CodeRow]
    BY DEF IInv, CodesInv
  <1>2. ASSUME NEW c \in Posts, Supersede(c)
        PROVE  CodesStepIs
    <2>1. \A n \in DOMAIN codes :
             /\ [codes[n] EXCEPT !.state = "superseded"] \in CodeRow
             /\ [codes[n] EXCEPT !.state = "superseded"].state = "superseded"
      BY <1>1 DEF CodeRow
    <2>2. codes' = [n \in DOMAIN codes |->
                      IF codes[n].flow = post[c].flow /\ codes[n].state = "live"
                      THEN [codes[n] EXCEPT !.state = "superseded"] ELSE codes[n]]
      BY <1>2 DEF Supersede
    <2>3. codes' \in [DOMAIN codes -> CodeRow]
      BY <1>1, <2>1, <2>2
    <2>4. ASSUME NEW n \in DOMAIN codes, codes'[n].state = "live"
          PROVE  codes'[n] = codes[n]
      BY <2>1, <2>2, <2>4
    <2>5. QED
      BY <2>3, <2>4 DEF CodesStepIs
  <1>3. ASSUME NEW c \in Posts, StoreCode(c)
        PROVE  CodesStepIs
    <2> DEFINE r == [flow |-> post[c].flow, state |-> "live", attempts |-> 0,
                       accepted |-> 0]
    <2>1. r \in CodeRow /\ r.accepted = 0
      BY <1>3 DEF IInv, PostInv, StoreCode, Is, CodeRow
    <2>2. codes' = [k \in 1..(Cardinality(DOMAIN codes) + 1) |->
                      IF k = Cardinality(DOMAIN codes) + 1 THEN r ELSE codes[k]]
      BY <1>3 DEF StoreCode
    <2> HIDE DEF r
    <2>3. QED
      BY <2>1, <2>2 DEF CodesStepIs
  <1>4. ASSUME NEW n \in DOMAIN codes, NEW r \in CodeRow,
               codes' = [codes EXCEPT ![n] = r],
               r.state = "live" => codes[n].state = "live" /\ r.accepted = codes[n].accepted
        PROVE  CodesStepIs
    BY <1>1, <1>4 DEF CodesStepIs
  <1>5. ASSUME NEW c \in Posts, Miss(c)
        PROVE  CodesStepIs
    <2> DEFINE n == post[c].num
    <2>1. CASE n \in DOMAIN codes
      <3> DEFINE r == [codes[n] EXCEPT !.attempts = @ + 1]
      <3>1. r \in CodeRow /\ r.state = codes[n].state /\ r.accepted = codes[n].accepted
        BY <1>1, <2>1 DEF CodeRow
      <3>2. codes' = [codes EXCEPT ![n] = r]
        BY <1>5 DEF Miss
      <3> HIDE DEF r, n
      <3>3. QED
        BY <1>4, <2>1, <3>1, <3>2
    <2>2. CASE n \notin DOMAIN codes
      <3>1. codes' = codes
        BY <1>1, <1>5, <2>2 DEF Miss
      <3>2. QED
        BY <3>1 DEF CodesStepIs
    <2>3. QED
      BY <2>1, <2>2
  <1>6. ASSUME NEW c \in Posts, ClaimCode(c)
        PROVE  CodesStepIs
    <2> DEFINE n   == post[c].num
               r == [codes[n] EXCEPT !.state = "used", !.accepted = @ + 1]
    <2>1. CASE Live(n)
      <3>1. n \in DOMAIN codes /\ codes[n].accepted = 0
        BY <2>1 DEF Live, IInv, CodesInv
      <3>2. codes[n] \in CodeRow /\ codes[n].accepted + 1 = 1
        BY <1>1, <3>1
      <3>3. r \in CodeRow /\ r.state = "used"
        BY <3>2 DEF CodeRow
      <3>4. codes' = [codes EXCEPT ![n] = r]
        BY <1>6, <2>1 DEF ClaimCode
      <3> HIDE DEF r, n
      <3>5. QED
        BY <1>4, <3>1, <3>3, <3>4
    <2>2. CASE ~Live(n)
      BY <1>6, <2>2 DEF ClaimCode, CodesStepIs
    <2>3. QED
      BY <2>1, <2>2
  <1>7. CASE Expire
    <2>1. CASE UNCHANGED codes
      BY <2>1 DEF CodesStepIs
    <2>2. ASSUME NEW n \in DOMAIN codes, codes' = [codes EXCEPT ![n].state = "expired"]
          PROVE  CodesStepIs
      <3> DEFINE r == [codes[n] EXCEPT !.state = "expired"]
      <3>1. r \in CodeRow /\ r.state = "expired"
        BY <1>1 DEF CodeRow
      <3>2. codes' = [codes EXCEPT ![n] = r]
        BY <2>2
      <3> HIDE DEF r
      <3>3. QED
        BY <1>4, <3>1, <3>2
    <2>3. QED
      BY <1>7, <2>1, <2>2 DEF Expire
  <1>8. CASE UNCHANGED codes
    BY <1>8 DEF CodesStepIs
  <1>9. QED
    <2>1. UNCHANGED accountsVars => UNCHANGED codes
      BY DEF accountsVars
    <2>2. SuspendAccount => UNCHANGED codes
      BY DEF SuspendAccount
    <2>3. ASSUME NEW c \in Posts,
                 \/ SignUp(c) \/ CreateAccount(c) \/ Resend(c) \/ MailCode(c) \/ CheckCode(c)
                 \/ Verify(c) \/ Invite(c) \/ CreateInvited(c) \/ Forgot(c) \/ StoreLink(c)
                 \/ MailLink(c) \/ ResetPassword(c) \/ ClaimLink(c) \/ SetPassword(c)
                 \/ SignIn(c) \/ IssueToken(c) \/ Leave(c)
          PROVE  UNCHANGED codes
      BY <2>3
      DEF SignUp, CreateAccount, Resend, MailCode, CheckCode, Verify, Invite, CreateInvited,
          Forgot, StoreLink, MailLink, ResetPassword, ClaimLink, SetPassword, SignIn,
          IssueToken, Leave, Start
    <2>4. QED
      BY <1>2, <1>3, <1>5, <1>6, <1>7, <1>8, <2>1, <2>2, <2>3 DEF AccountsNext

LEMMA LinksChange ==
    ASSUME IInv, [AccountsNext]_accountsVars
    PROVE  LinksStepIs
  <1>1. PICK m \in Nat : links \in [1..m -> LinkRow]
    BY DEF IInv, LinksInv
  <1>2. ASSUME NEW c \in Posts, StoreLink(c)
        PROVE  LinksStepIs
    <2> DEFINE r == [state |-> "live", accepted |-> 0]
    <2>1. r \in LinkRow /\ r.accepted = 0
      BY DEF LinkRow
    <2>2. links' = [k \in 1..(Cardinality(DOMAIN links) + 1) |->
                      IF k = Cardinality(DOMAIN links) + 1 THEN r ELSE links[k]]
      BY <1>2 DEF StoreLink
    <2> HIDE DEF r
    <2>3. QED
      BY <2>1, <2>2 DEF LinksStepIs
  <1>3. ASSUME NEW n \in DOMAIN links, NEW r \in LinkRow,
               links' = [links EXCEPT ![n] = r], r.state # "live"
        PROVE  LinksStepIs
    BY <1>1, <1>3 DEF LinksStepIs
  <1>4. ASSUME NEW c \in Posts, ClaimLink(c)
        PROVE  LinksStepIs
    <2> DEFINE n   == post[c].num
               r == [links[n] EXCEPT !.state = "used", !.accepted = @ + 1]
    <2>1. CASE Open(n)
      <3>1. n \in DOMAIN links /\ links[n].accepted = 0
        BY <2>1 DEF Open, IInv, LinksInv
      <3>2. links[n] \in LinkRow /\ links[n].accepted + 1 = 1
        BY <1>1, <3>1
      <3>3. r \in LinkRow /\ r.state = "used"
        BY <3>2 DEF LinkRow
      <3>4. links' = [links EXCEPT ![n] = r]
        BY <1>4, <2>1 DEF ClaimLink, Claimable
      <3> HIDE DEF r, n
      <3>5. QED
        BY <1>3, <3>1, <3>3, <3>4
    <2>2. CASE ~Open(n)
      BY <1>4, <2>2 DEF ClaimLink, Claimable, LinksStepIs
    <2>3. QED
      BY <2>1, <2>2
  <1>5. CASE Expire
    <2>1. CASE UNCHANGED links
      BY <2>1 DEF LinksStepIs
    <2>2. ASSUME NEW n \in DOMAIN links, links' = [links EXCEPT ![n].state = "expired"]
          PROVE  LinksStepIs
      <3> DEFINE r == [links[n] EXCEPT !.state = "expired"]
      <3>1. r \in LinkRow /\ r.state = "expired"
        BY <1>1 DEF LinkRow
      <3>2. links' = [links EXCEPT ![n] = r]
        BY <2>2
      <3> HIDE DEF r
      <3>3. QED
        BY <1>3, <3>1, <3>2
    <2>3. QED
      BY <1>5, <2>1, <2>2 DEF Expire
  <1>6. CASE UNCHANGED links
    BY <1>6 DEF LinksStepIs
  <1>7. QED
    <2>1. UNCHANGED accountsVars => UNCHANGED links
      BY DEF accountsVars
    <2>2. SuspendAccount => UNCHANGED links
      BY DEF SuspendAccount
    <2>3. ASSUME NEW c \in Posts,
                 \/ SignUp(c) \/ CreateAccount(c) \/ Resend(c) \/ Supersede(c) \/ StoreCode(c)
                 \/ MailCode(c) \/ CheckCode(c) \/ Miss(c) \/ ClaimCode(c) \/ Verify(c)
                 \/ Invite(c) \/ CreateInvited(c) \/ Forgot(c) \/ MailLink(c)
                 \/ ResetPassword(c) \/ SetPassword(c) \/ SignIn(c) \/ IssueToken(c) \/ Leave(c)
          PROVE  UNCHANGED links
      BY <2>3
      DEF SignUp, CreateAccount, Resend, Supersede, StoreCode, MailCode, CheckCode, Miss,
          ClaimCode, Verify, Invite, CreateInvited, Forgot, MailLink, ResetPassword,
          SetPassword, SignIn, IssueToken, Leave, Start
    <2>4. QED
      BY <1>2, <1>4, <1>5, <1>6, <2>1, <2>2, <2>3 DEF AccountsNext
-----------------------------------------------------------------------------
(* What a step does to the account and its sessions.                       *)

LEMMA AccountStep ==
    ASSUME IInv, [AccountsNext]_accountsVars
    PROVE  SessionsInv'
  <1> USE DEF IInv, SessionsInv
  <1>1. ASSUME ComparesKept, UNCHANGED tokens, account' \in Account,
               account'.version = account.version, account'.password = account.password,
               account'.there = account.there
        PROVE  SessionsInv'
    BY <1>1 DEF ComparesKept
  <1>2. ASSUME NEW c \in Posts, OtherThanSignIn(c)
        PROVE  SessionsInv'
    <2>1. ComparesKept /\ PostInv'
      BY <1>2, PostsKept
    <2>2. CASE UNCHANGED <<account, tokens>>
      BY <1>1, <2>1, <2>2
    <2>3. ASSUME ~account.there, NEW p \in Word, UNCHANGED tokens,
                 account' = [NoAccount EXCEPT !.there = TRUE, !.password = p]
          PROVE  SessionsInv'
      <3>1. account' \in Account /\ account'.there
        BY <2>3, NoAccountIs DEF Account
      <3>2. tokens' = {} /\ \A d \in Posts : post'[d].at # "compare"
        BY <2>1, <2>3 DEF ComparesKept
      <3>3. QED
        BY <3>1, <3>2
    <2>4. CASE CreateAccount(c)
      <3>1. account.there => UNCHANGED <<account, tokens>>
        BY <2>4 DEF CreateAccount
      <3>2. ~account.there =>
               /\ account' = [NoAccount EXCEPT !.there = TRUE, !.password = post[c].password]
               /\ UNCHANGED tokens
        BY <2>4 DEF CreateAccount
      <3>3. post[c].password \in Word
        BY DEF PostInv, PostType, Request
      <3>4. QED
        BY <2>2, <2>3, <3>1, <3>2, <3>3
    <2>5. CASE CreateInvited(c)
      <3>1. account.there => UNCHANGED <<account, tokens>>
        BY <2>5 DEF CreateInvited
      <3>2. ASSUME ~account.there
            PROVE  SessionsInv'
        <4>1. account' = [NoAccount EXCEPT !.there = TRUE] /\ UNCHANGED tokens
          BY <2>5, <3>2 DEF CreateInvited
        <4>2. account' \in Account /\ account'.there
          BY <4>1, NoAccountIs DEF Account
        <4>3. tokens' = {} /\ \A d \in Posts : post'[d].at # "compare"
          BY <2>1, <3>2, <4>1 DEF ComparesKept
        <4>4. QED
          BY <4>2, <4>3
      <3>3. QED
        BY <2>2, <3>1, <3>2
    <2>6. CASE Verify(c)
      <3>1. /\ account' \in Account /\ account'.version = account.version
            /\ account'.password = account.password /\ account'.there = account.there
        BY <2>6 DEF Verify, Account
      <3>2. UNCHANGED tokens
        BY <2>6 DEF Verify
      <3>3. QED
        BY <1>1, <2>1, <3>1, <3>2
    <2>7. CASE SetPassword(c)
      <3>1. post[c].password \in Word
        BY DEF PostInv, PostType, Request
      <3>2. /\ account' \in Account /\ account'.version = account.version + 1
            /\ account'.there = account.there
        <4>1. account' = [account EXCEPT !.password = post[c].password, !.version = @ + 1]
          BY <2>7 DEF SetPassword, NewPassword
        <4>2. account \in Account /\ account.version + 1 \in Nat
          BY DEF Account
        <4>3. QED
          BY <3>1, <4>1, <4>2 DEF Account
      <3>3. UNCHANGED tokens /\ account.version \in Nat
        BY <2>7 DEF SetPassword, Account
      <3>4. \A t \in tokens : t.version \in 0..account.version
        OBVIOUS
      <3>5. \A d \in Posts : post'[d].at = "compare" =>
               /\ post'[d].read.version <= account.version
               /\ post'[d].read.version \in Nat
        BY <2>1 DEF ComparesKept, PostInv, PostType, Request, Account
      <3>6. tokens' \subseteq [version : 0..account'.version, password : Passwords]
        BY <3>2, <3>3
      <3>7. \A t \in tokens' : t.version # account'.version
        BY <3>2, <3>3, <3>4
      <3>8. \A d \in Posts : post'[d].at = "compare" =>
               post'[d].read.version <= account'.version
               /\ post'[d].read.version # account'.version
        BY <3>2, <3>3, <3>5
      <3>9. ~account'.there => tokens' = {} /\ \A d \in Posts : post'[d].at # "compare"
        BY <2>1, <3>2, <3>3 DEF ComparesKept
      <3>10. QED
        BY <3>2, <3>6, <3>7, <3>8, <3>9
    <2>8. CASE IssueToken(c)
      <3> DEFINE read == post[c].read
                 new  == [version |-> read.version, password |-> post[c].password]
      <3>1. /\ post[c].at = "compare" /\ UNCHANGED account /\ account.there
            /\ read \in Account /\ post[c].password \in Passwords
        BY <2>8 DEF IssueToken, Is, PostInv, PostType, Request
      <3>2. read.version \in 0..account.version
        BY <3>1 DEF Account
      <3>3. \/ UNCHANGED tokens
            \/ read.password = post[c].password /\ tokens' = tokens \cup {new}
        BY <2>8 DEF IssueToken
      <3>4. new \in [version : 0..account.version, password : Passwords]
        BY <3>1, <3>2
      <3>5. new.version = account.version /\ read.password = post[c].password =>
               new.password = account.password
        BY <3>1
      <3> HIDE DEF new, read
      <3>6. QED
        BY <2>1, <3>1, <3>3, <3>4, <3>5 DEF ComparesKept
    <2>9. CASE \/ SignUp(c) \/ Resend(c) \/ Supersede(c) \/ StoreCode(c) \/ MailCode(c)
               \/ CheckCode(c) \/ Miss(c) \/ ClaimCode(c) \/ Invite(c) \/ Forgot(c)
               \/ StoreLink(c) \/ MailLink(c) \/ ResetPassword(c) \/ ClaimLink(c) \/ Leave(c)
      <3>1. UNCHANGED <<account, tokens>>
        BY <2>9
        DEF SignUp, Resend, Supersede, StoreCode, MailCode, CheckCode, Miss, ClaimCode, Invite,
            Forgot, StoreLink, MailLink, ResetPassword, ClaimLink, Leave, Start
      <3>2. QED
        BY <2>2, <3>1
    <2>10. QED
      BY <1>2, <2>4, <2>5, <2>6, <2>7, <2>8, <2>9 DEF OtherThanSignIn
  <1>3. ASSUME NEW c \in Posts, SignIn(c)
        PROVE  SessionsInv'
    <2>1. /\ account.there /\ UNCHANGED <<account, tokens>>
          /\ \A d \in Posts : post'[d].at = "compare" =>
                \/ post'[d].read = account
                \/ post[d].at = "compare" /\ post'[d].read = post[d].read
      BY <1>3, SignInPost
    <2>2. account.version \in Nat
      BY DEF Account
    <2>3. QED
      BY <2>1, <2>2
  <1>4. CASE SuspendAccount
    <2>1. /\ account' \in Account /\ account'.version = account.version
          /\ account'.password = account.password /\ account'.there = account.there
      BY <1>4 DEF SuspendAccount, Account
    <2>2. ComparesKept /\ UNCHANGED tokens
      BY <1>4 DEF SuspendAccount, ComparesKept
    <2>3. QED
      BY <1>1, <2>1, <2>2
  <1>5. CASE Expire \/ UNCHANGED accountsVars
    BY <1>5 DEF Expire, accountsVars
  <1>6. QED
    BY <1>2, <1>3, <1>4, <1>5 DEF AccountsNext, OtherThanSignIn

LEMMA PostStep ==
    ASSUME IInv, [AccountsNext]_accountsVars
    PROVE  PostInv'
  <1>1. CASE SuspendAccount \/ Expire \/ UNCHANGED accountsVars
    BY <1>1 DEF IInv, PostInv, PostType, SuspendAccount, Expire, accountsVars
  <1>2. ASSUME NEW c \in Posts, OtherThanSignIn(c)
        PROVE  PostInv'
    BY <1>2, PostsKept DEF IInv
  <1>3. ASSUME NEW c \in Posts, SignIn(c)
        PROVE  PostInv'
    BY <1>3, SignInPost DEF IInv, SessionsInv
  <1>4. QED
    BY <1>1, <1>2, <1>3 DEF AccountsNext, OtherThanSignIn

LEMMA InvStep == IInv /\ [AccountsNext]_accountsVars => IInv'
  BY PostStep, AccountStep, CodesChange, CodesKept, LinksChange, LinksKept DEF IInv

LEMMA AccountsAreSound == IInv => AccountsInv /\ SessionsMatchPassword
  <1>1. IInv => SessionsMatchPassword
    BY DEF IInv, SessionsInv, SessionsMatchPassword, Signed
  <1>2. IInv => AccountsTypeOK
    BY DEF IInv, SessionsInv, CodesInv, LinksInv, Account, Word, CodeRow, LinkRow,
           AccountsTypeOK
  <1>3. IInv => UsedOnce
    <2> SUFFICES ASSUME IInv PROVE UsedOnce
      OBVIOUS
    <2>1. \A n \in DOMAIN codes : codes[n].accepted \in {0, 1}
      BY DEF IInv, CodesInv, CodeRow
    <2>2. \A n \in DOMAIN links : links[n].accepted \in {0, 1}
      BY DEF IInv, LinksInv, LinkRow
    <2>3. QED
      BY <2>1, <2>2 DEF UsedOnce
  <1>4. QED
    BY <1>1, <1>2, <1>3 DEF AccountsInv

\* A session that still works was earned with the password the account has now:
\* a password reset ends the sessions of the old one, whatever sign-ins were
\* under way when it happened (auth/password.ts, auth/session.ts).
THEOREM OldSessionsAreOut == AccountsSpec => []SessionsMatchPassword
  BY InitInv, InvStep, AccountsAreSound, PTL DEF AccountsSpec

\* A mailed code and a mailed link are each accepted once, by whichever of the
\* requests that posted it together claims it first; and the rows keep their
\* types (auth/email-verification.ts, auth/password-reset.ts).
THEOREM CodesWorkOnce == AccountsSpec => []AccountsInv
  BY InitInv, InvStep, AccountsAreSound, PTL DEF AccountsSpec

-----------------------------------------------------------------------------
(* The registration form.                                                  *)

USE EventAssumption, ProgrammeAssumption

\* Counters of some of the things in I.
Counters(I, N) == UNION {[T -> N] : T \in SUBSET I}

Positive == Nat \ {0}
FormState == [from : Events \cup {NoEvent}, details : {"blank", "partial", "valid"},
              qty : Counters(Tiers, Nat), chosen : Counters(Sessions, Positive),
              optedIn : SUBSET Gated, answers : {"none", "blank", "given"}]

LEMMA CounterIs ==
    ASSUME NEW I, NEW N, NEW q
    PROVE  q \in Counters(I, N) <=> DOMAIN q \subseteq I /\ q \in [DOMAIN q -> N]
  <1>1. ASSUME q \in Counters(I, N) PROVE DOMAIN q \subseteq I /\ q \in [DOMAIN q -> N]
    <2>1. PICK T \in SUBSET I : q \in [T -> N]
      BY <1>1 DEF Counters
    <2>. QED
      BY <2>1
  <1>2. ASSUME DOMAIN q \subseteq I, q \in [DOMAIN q -> N] PROVE q \in Counters(I, N)
    <2>1. DOMAIN q \in SUBSET I
      BY <1>2
    <2>. QED
      BY <1>2, <2>1 DEF Counters
  <1>. QED
    BY <1>1, <1>2

LEMMA SetCountIs ==
    ASSUME NEW I, NEW N, NEW q \in Counters(I, N), NEW i \in I, NEW n \in N
    PROVE  /\ SetCount(q, i, n) \in Counters(I, N)
           /\ DOMAIN SetCount(q, i, n) = DOMAIN q \cup {i}
  <1>1. DOMAIN q \subseteq I /\ q \in [DOMAIN q -> N]
    BY CounterIs
  <1>2. /\ DOMAIN SetCount(q, i, n) = DOMAIN q \cup {i}
        /\ SetCount(q, i, n) \in [DOMAIN q \cup {i} -> N]
    BY <1>1 DEF SetCount
  <1>3. DOMAIN q \cup {i} \subseteq I
    BY <1>1
  <1> DEFINE r == SetCount(q, i, n)
  <1> HIDE DEF r
  <1>4. DOMAIN r \subseteq I /\ r \in [DOMAIN r -> N]
    BY <1>2, <1>3 DEF r
  <1>5. r \in Counters(I, N)
    BY <1>4, CounterIs
  <1>. QED
    BY <1>2, <1>5 DEF r

LEMMA OnlyIs ==
    ASSUME NEW I, NEW N, NEW q \in Counters(I, N), NEW S
    PROVE  Only(q, S) \in Counters(I, N) /\ DOMAIN Only(q, S) = DOMAIN q \cap S
  <1>1. DOMAIN q \subseteq I /\ q \in [DOMAIN q -> N]
    BY CounterIs
  <1>2. /\ DOMAIN Only(q, S) = DOMAIN q \cap S
        /\ Only(q, S) \in [DOMAIN q \cap S -> N]
    BY <1>1 DEF Only
  <1> DEFINE r == Only(q, S)
  <1> HIDE DEF r
  <1>3. DOMAIN r \subseteq I /\ r \in [DOMAIN r -> N]
    BY <1>1, <1>2 DEF r
  <1>4. r \in Counters(I, N)
    BY <1>3, CounterIs
  <1>. QED
    BY <1>2, <1>4 DEF r

LEMMA CountIs ==
    ASSUME NEW I, NEW N, N \subseteq Nat, NEW q \in Counters(I, N), NEW i
    PROVE  /\ Count(q, i) \in Nat
           /\ Count(q, i) > 0 => i \in DOMAIN q /\ q[i] = Count(q, i)
           /\ i \in DOMAIN q => q[i] \in N
  <1>1. q \in [DOMAIN q -> N]
    BY CounterIs
  <1>. QED
    BY <1>1 DEF Count

LEMMA EmptyIs == ASSUME NEW I, NEW N PROVE Empty \in Counters(I, N) /\ DOMAIN Empty = {}
  <1>1. DOMAIN Empty = {} /\ Empty \in [{} -> N]
    BY DEF Empty
  <1>2. DOMAIN Empty \subseteq I /\ Empty \in [DOMAIN Empty -> N]
    BY <1>1
  <1>. QED
    BY <1>1, <1>2, CounterIs

LEMMA FormIs == ASSUME NEW f PROVE IsForm(f) <=> f \in FormState
  <1>1. ASSUME f = [from |-> f.from, details |-> f.details, qty |-> f.qty, chosen |-> f.chosen,
                    optedIn |-> f.optedIn, answers |-> f.answers],
               f.from \in Events \cup {NoEvent}, f.details \in {"blank", "partial", "valid"},
               f.qty \in Counters(Tiers, Nat), f.chosen \in Counters(Sessions, Positive),
               f.optedIn \subseteq Gated, f.answers \in {"none", "blank", "given"}
        PROVE  f \in FormState
    BY <1>1 DEF FormState
  <1>2. ASSUME f \in FormState
        PROVE  /\ f = [from |-> f.from, details |-> f.details, qty |-> f.qty, chosen |-> f.chosen,
                       optedIn |-> f.optedIn, answers |-> f.answers]
               /\ f.from \in Events \cup {NoEvent} /\ f.details \in {"blank", "partial", "valid"}
               /\ f.qty \in Counters(Tiers, Nat) /\ f.chosen \in Counters(Sessions, Positive)
               /\ f.optedIn \subseteq Gated /\ f.answers \in {"none", "blank", "given"}
    BY <1>2 DEF FormState
  <1>. QED
    BY <1>1, <1>2, CounterIs DEF IsForm, Positive

LEMMA FormFields ==
    ASSUME NEW f \in FormState
    PROVE  /\ f.from \in Events \cup {NoEvent} /\ f.details \in {"blank", "partial", "valid"}
           /\ f.qty \in Counters(Tiers, Nat) /\ f.chosen \in Counters(Sessions, Positive)
           /\ f.optedIn \subseteq Gated /\ f.answers \in {"none", "blank", "given"}
  BY DEF FormState

LEMMA BlankIsForm ==
    Blank \in FormState /\ Blank.from = NoEvent /\ DOMAIN Blank.chosen = {}
  BY EmptyIs DEF Blank, FormState

\* The shape of the form's state, which what it promises rests on.
Visibly(f) == \A s \in DOMAIN f.chosen : Visible(s, f.optedIn)

Ready(f, n) == HasTickets(f) /\ SeatsSatisfied(f, n) /\ ~MissingAnswers(f)

WizardOK ==
    /\ rule \in Rules /\ slug \in Events /\ restoredFor \in Events \cup {NoEvent}
    /\ restored \in BOOLEAN /\ busy \in BOOLEAN /\ gone \in BOOLEAN
    /\ step \in 0..ConfirmStep /\ seats \in 0..Seats /\ consent \in Events \cup {NoEvent}
    /\ form \in FormState /\ drafts \in [Events -> FormState]
    /\ \/ submitted = NoCall
       \/ /\ submitted.event \in Events /\ submitted.consent \in Events
          /\ submitted.form \in FormState /\ submitted.seats \in Nat /\ busy
    /\ \A e \in Events : drafts[e].from \in {NoEvent, e} /\ Visibly(drafts[e])
    /\ Visibly(form)
    /\ restoredFor = slug => form.from \in {NoEvent, slug} /\ consent \in {NoEvent, slug}
    /\ restoredFor = slug /\ step >= 1 => form.details = "valid"
    /\ restoredFor = slug /\ step >= 2 => Ready(form, seats)

LEMMA WizardOKIs == WizardOK => WizardInv
  <1>1. ASSUME WizardOK PROVE WizardTypeOK
    BY <1>1, FormIs DEF WizardOK, WizardTypeOK
  <1>2. ASSUME WizardOK PROVE OfItsEvent /\ (submitted # NoCall => busy)
    BY <1>2 DEF WizardOK, OfItsEvent
  <1>3. ASSUME WizardOK PROVE StepsBehind
    BY <1>3 DEF WizardOK, StepsBehind, Ready
  <1>4. ASSUME WizardOK PROVE NothingHidden
    BY <1>4 DEF WizardOK, NothingHidden, Visibly
  <1>. QED
    BY <1>1, <1>2, <1>3, <1>4 DEF WizardInv

\* Something is entered: into the form, and into the draft of its event.
LEMMA Entered ==
    ASSUME WizardOK, restoredFor = slug, NEW f \in FormState, Enter(f), Visibly(f),
           step >= 1 => f.details = "valid", step >= 2 => Ready(f, seats)
    PROVE  WizardOK'
  <1> DEFINE g == [f EXCEPT !.from = slug]
  <1>1. /\ g \in FormState /\ g.from = slug /\ g.details = f.details /\ g.qty = f.qty
        /\ g.chosen = f.chosen /\ g.optedIn = f.optedIn /\ g.answers = f.answers
    BY DEF WizardOK, FormState
  <1>2. /\ form' = g /\ drafts' \in {drafts, [drafts EXCEPT ![slug] = g]}
        /\ UNCHANGED <<rule, slug, restoredFor, restored, step, seats, consent,
                       busy, submitted, gone>>
    BY DEF Enter, Saved, saveDraft
  <1> HIDE DEF g
  <1>3. Visibly(g) /\ (Ready(f, seats) => Ready(g, seats))
    BY <1>1 DEF Visibly, Ready, HasTickets, SeatsSatisfied, MissingAnswers, Chosen
  <1>4. /\ drafts' \in [Events -> FormState]
        /\ \A e \in Events : drafts'[e].from \in {NoEvent, e} /\ Visibly(drafts'[e])
    BY <1>1, <1>2, <1>3 DEF WizardOK
  <1>5. Visibly(form') /\ Visibly(form)' /\ \A e \in Events : Visibly(drafts'[e]) = Visibly(drafts[e])'
    BY <1>2, <1>3 DEF Visibly
  <1>6. Ready(form, seats)' = Ready(form', seats')
    BY DEF Ready, HasTickets, SeatsSatisfied, MissingAnswers, Chosen
  <1>7. /\ step' \in 0..ConfirmStep /\ seats' \in 0..Seats
        /\ \/ submitted' = NoCall
           \/ /\ submitted'.event \in Events /\ submitted'.consent \in Events
              /\ submitted'.form \in FormState /\ submitted'.seats \in Nat /\ busy'
    BY <1>2 DEF WizardOK, NoCall
  <1>. QED
    BY <1>1, <1>2, <1>3, <1>4, <1>5, <1>6, <1>7 DEF WizardOK

LEMMA EnterSteps ==
    ASSUME WizardOK,
           \/ TypeDetails \/ AnswerQuestion
           \/ \E t \in Tiers : ChooseTier(t) \/ AddTicket(t) \/ RemoveTicket(t)
           \/ \E c \in Gated : ToggleCategory(c)
           \/ \E s \in Sessions : AddSession(s) \/ RemoveSession(s)
    PROVE  WizardOK'
  <1>1. /\ form \in FormState /\ step \in 0..ConfirmStep /\ Visibly(form)
        /\ restoredFor = slug /\ step >= 1 => form.details = "valid"
        /\ restoredFor = slug /\ step >= 2 => Ready(form, seats)
    BY DEF WizardOK
  <1>2. /\ form.from \in Events \cup {NoEvent} /\ form.details \in {"blank", "partial", "valid"}
        /\ form.qty \in Counters(Tiers, Nat) /\ form.chosen \in Counters(Sessions, Positive)
        /\ form.optedIn \subseteq Gated /\ form.answers \in {"none", "blank", "given"}
    BY <1>1, FormFields
  <1>3. ASSUME NEW d \in {"blank", "partial", "valid"}, OnStep(0), Enter([form EXCEPT !.details = d])
        PROVE  WizardOK'
    <2> DEFINE f == [form EXCEPT !.details = d]
    <2>1. f \in FormState /\ f.chosen = form.chosen /\ f.optedIn = form.optedIn
      BY <1>1 DEF FormState
    <2>2. restoredFor = slug /\ step = 0 /\ Enter(f)
      BY <1>3 DEF OnStep
    <2> HIDE DEF f
    <2>. QED
      BY <1>1, <2>1, <2>2, Entered DEF Visibly
  <1>4. ASSUME NEW a \in {"blank", "given"}, OnStep(1), Enter([form EXCEPT !.answers = a])
        PROVE  WizardOK'
    <2> DEFINE f == [form EXCEPT !.answers = a]
    <2>1. /\ f \in FormState /\ f.chosen = form.chosen /\ f.optedIn = form.optedIn
          /\ f.details = form.details
      BY <1>1 DEF FormState
    <2>2. restoredFor = slug /\ step = 1 /\ Enter(f)
      BY <1>4 DEF OnStep
    <2> HIDE DEF f
    <2>. QED
      BY <1>1, <2>1, <2>2, Entered DEF Visibly
  <1>5. ASSUME NEW q \in Counters(Tiers, Nat), OnStep(1), Enter([form EXCEPT !.qty = q])
        PROVE  WizardOK'
    <2> DEFINE f == [form EXCEPT !.qty = q]
    <2>1. /\ f \in FormState /\ f.chosen = form.chosen /\ f.optedIn = form.optedIn
          /\ f.details = form.details
      BY <1>1, <1>5 DEF FormState
    <2>2. restoredFor = slug /\ step = 1 /\ Enter(f)
      BY <1>5 DEF OnStep
    <2> HIDE DEF f
    <2>. QED
      BY <1>1, <2>1, <2>2, Entered DEF Visibly
  <1>6. ASSUME NEW p \in Counters(Sessions, Positive), OnStep(SessionsStep),
               Enter([form EXCEPT !.chosen = p]),
               \A s \in DOMAIN p : Visible(s, form.optedIn)
        PROVE  WizardOK'
    <2> DEFINE f == [form EXCEPT !.chosen = p]
    <2>1. /\ f \in FormState /\ f.chosen = p /\ f.optedIn = form.optedIn
          /\ f.details = form.details /\ f.qty = form.qty /\ f.answers = form.answers
      BY <1>1, <1>6 DEF FormState
    <2>2. restoredFor = slug /\ step = 2 /\ Enter(f)
      BY <1>6 DEF OnStep, SessionsStep
    <2> HIDE DEF f
    <2>3. Visibly(f)
      BY <1>6, <2>1 DEF Visibly
    <2>4. Ready(f, seats)
      BY <1>1, <2>1, <2>2 DEF Ready, HasTickets, SeatsSatisfied, MissingAnswers, Chosen
    <2>. QED
      BY <1>1, <2>1, <2>2, <2>3, <2>4, Entered
  <1>7. ASSUME NEW t \in Tiers, ChooseTier(t)
        PROVE  WizardOK'
    <2>1. SetCount(Empty, t, 1) \in Counters(Tiers, Nat) /\ Empty \in Counters(Tiers, Nat)
      BY EmptyIs, SetCountIs
    <2>. QED
      BY <1>5, <1>7, <2>1 DEF ChooseTier
  <1>8. ASSUME NEW t \in Tiers, AddTicket(t) \/ RemoveTicket(t)
        PROVE  WizardOK'
    <2>1. Count(form.qty, t) \in Nat /\ (Count(form.qty, t) > 0 => form.qty[t] = Count(form.qty, t))
      BY <1>2, CountIs
    <2>2. CASE AddTicket(t)
      <3>0. Count(form.qty, t) + 1 \in Nat
        BY <2>1
      <3>1. SetCount(form.qty, t, Count(form.qty, t) + 1) \in Counters(Tiers, Nat)
        BY <1>2, <3>0, SetCountIs, Zenon
      <3>. QED
        BY <1>5, <2>2, <3>1 DEF AddTicket
    <2>3. CASE RemoveTicket(t)
      <3>1. form.qty[t] - 1 \in Nat
        BY <2>1, <2>3 DEF RemoveTicket
      <3>2. SetCount(form.qty, t, form.qty[t] - 1) \in Counters(Tiers, Nat)
        BY <1>2, <3>1, SetCountIs
      <3>. QED
        BY <1>5, <2>3, <3>2 DEF RemoveTicket
    <2>. QED
      BY <1>8, <2>2, <2>3
  <1>9. ASSUME NEW c \in Gated, ToggleCategory(c)
        PROVE  WizardOK'
    <2> DEFINE opted == IF c \in form.optedIn THEN form.optedIn \ {c} ELSE form.optedIn \cup {c}
               p == Only(form.chosen, {s \in Sessions : Visible(s, opted)})
               f == [form EXCEPT !.optedIn = opted, !.chosen = p]
    <2>1. OnStep(1) /\ Enter(f)
      BY <1>9 DEF ToggleCategory
    <2>2. opted \subseteq Gated
      BY <1>2
    <2> HIDE DEF opted
    <2>3. p \in Counters(Sessions, Positive) /\ \A s \in DOMAIN p : Visible(s, opted)
      <3>1. p \in Counters(Sessions, Positive)
        BY <1>2, OnlyIs, Zenon
      <3>2. DOMAIN p = DOMAIN form.chosen \cap {s \in Sessions : Visible(s, opted)}
        BY DEF Only
      <3>. QED
        BY <3>1, <3>2
    <2> HIDE DEF p
    <2>4. /\ f \in FormState /\ f.chosen = p /\ f.optedIn = opted /\ f.details = form.details
      BY <1>1, <2>2, <2>3 DEF FormState
    <2> HIDE DEF f
    <2>5. Visibly(f) /\ restoredFor = slug /\ step = 1
      BY <2>1, <2>3, <2>4 DEF Visibly, OnStep
    <2>. QED
      BY <1>1, <2>1, <2>4, <2>5, Entered
  <1>10. ASSUME NEW s \in Sessions, AddSession(s)
         PROVE  WizardOK'
    <2> DEFINE p == SetCount(form.chosen, s, Count(form.chosen, s) + 1)
    <2>1. Count(form.chosen, s) + 1 \in Positive
      <3>1. Positive \subseteq Nat
        BY DEF Positive
      <3>2. Count(form.chosen, s) \in Nat
        BY <1>2, <3>1, CountIs
      <3>. QED
        BY <3>2 DEF Positive
    <2>2. p \in Counters(Sessions, Positive) /\ DOMAIN p = DOMAIN form.chosen \cup {s}
      <3>1. p \in Counters(Sessions, Positive)
        BY <1>2, <2>1, SetCountIs, Zenon
      <3>2. DOMAIN p = DOMAIN form.chosen \cup {s}
        BY DEF SetCount
      <3>. QED
        BY <3>1, <3>2
    <2>3. OnStep(SessionsStep) /\ Visible(s, form.optedIn) /\ Enter([form EXCEPT !.chosen = p])
      BY <1>10 DEF AddSession
    <2> HIDE DEF p
    <2>4. \A r \in DOMAIN p : Visible(r, form.optedIn)
      BY <1>1, <2>2, <2>3 DEF Visibly
    <2>. QED
      BY <1>6, <2>2, <2>3, <2>4
  <1>11. ASSUME NEW s \in Sessions, RemoveSession(s)
         PROVE  WizardOK'
    <2> DEFINE p == IF form.chosen[s] = 1 THEN Only(form.chosen, Sessions \ {s})
                    ELSE SetCount(form.chosen, s, form.chosen[s] - 1)
    <2>1. /\ OnStep(SessionsStep) /\ s \in DOMAIN form.chosen
          /\ Enter([form EXCEPT !.chosen = p])
      BY <1>11 DEF RemoveSession
    <2>2. p \in Counters(Sessions, Positive) /\ DOMAIN p \subseteq DOMAIN form.chosen
      <3>1. CASE form.chosen[s] = 1
        <4>1. Only(form.chosen, Sessions \ {s}) \in Counters(Sessions, Positive)
          BY <1>2, OnlyIs, Zenon
        <4>2. DOMAIN Only(form.chosen, Sessions \ {s}) = DOMAIN form.chosen \cap (Sessions \ {s})
          BY DEF Only
        <4>. QED
          BY <3>1, <4>1, <4>2
      <3>2. CASE form.chosen[s] # 1
        <4>1. form.chosen[s] \in Positive
          BY <1>2, <2>1, CounterIs
        <4>2. form.chosen[s] - 1 \in Positive
          BY <3>2, <4>1 DEF Positive
        <4>3. SetCount(form.chosen, s, form.chosen[s] - 1) \in Counters(Sessions, Positive)
          BY <1>2, <4>2, SetCountIs, Zenon
        <4>4. DOMAIN SetCount(form.chosen, s, form.chosen[s] - 1) = DOMAIN form.chosen \cup {s}
          BY DEF SetCount
        <4>. QED
          BY <2>1, <3>2, <4>3, <4>4
      <3>. QED
        BY <3>1, <3>2
    <2> HIDE DEF p
    <2>3. \A r \in DOMAIN p : Visible(r, form.optedIn)
      BY <1>1, <2>2 DEF Visibly
    <2>. QED
      BY <1>6, <2>1, <2>2, <2>3
  <1>. QED
    BY <1>3, <1>4, <1>7, <1>8, <1>9, <1>10, <1>11 DEF TypeDetails, AnswerQuestion

LEMMA Reshown ==
    ASSUME WizardOK, UNCHANGED <<rule, slug, restoredFor, form, submitted>>,
           drafts' \in [Events -> FormState],
           \A e \in Events : drafts'[e].from \in {NoEvent, e} /\ Visibly(drafts'[e]),
           restored' \in BOOLEAN, busy' \in BOOLEAN, gone' \in BOOLEAN, busy => busy',
           step' \in 0..ConfirmStep, seats' \in 0..Seats, consent' \in {consent, slug, NoEvent},
           restoredFor = slug /\ step' >= 1 => form.details = "valid",
           restoredFor = slug /\ step' >= 2 => Ready(form, seats')
    PROVE  WizardOK'
  <1>1. Visibly(form)' = Visibly(form) /\ \A e \in Events : Visibly(drafts'[e]) = Visibly(drafts[e])'
    BY DEF Visibly
  <1>2. Ready(form, seats)' = Ready(form, seats')
    BY DEF Ready, HasTickets, SeatsSatisfied, MissingAnswers, Chosen
  <1>3. \/ submitted' = NoCall
        \/ /\ submitted'.event \in Events /\ submitted'.consent \in Events
           /\ submitted'.form \in FormState /\ submitted'.seats \in Nat /\ busy'
    BY DEF WizardOK, NoCall
  <1>4. /\ rule' \in Rules /\ slug' \in Events /\ restoredFor' \in Events \cup {NoEvent}
        /\ form' \in FormState /\ consent' \in Events \cup {NoEvent}
        /\ restoredFor' = slug' => form'.from \in {NoEvent, slug'} /\ consent' \in {NoEvent, slug'}
    BY DEF WizardOK
  <1>5. Visibly(form)
    BY DEF WizardOK
  <1>. QED
    BY <1>1, <1>2, <1>3, <1>4, <1>5 DEF WizardOK

LEMMA WizardStep ==
    ASSUME WizardOK, [WizardNext]_wizardVars
    PROVE  WizardOK'
  <1>1. CASE UNCHANGED wizardVars
    BY <1>1 DEF wizardVars, page, WizardOK, Visibly, Ready, HasTickets, SeatsSatisfied,
                MissingAnswers, Chosen, NoCall
  <1>2. /\ drafts \in [Events -> FormState]
        /\ \A e \in Events : drafts[e].from \in {NoEvent, e} /\ Visibly(drafts[e])
        /\ restored \in BOOLEAN /\ busy \in BOOLEAN /\ gone \in BOOLEAN
        /\ step \in 0..ConfirmStep /\ seats \in 0..Seats /\ consent \in Events \cup {NoEvent}
        /\ slug \in Events /\ form \in FormState
        /\ restoredFor = slug /\ step >= 1 => form.details = "valid"
        /\ restoredFor = slug /\ step >= 2 => Ready(form, seats)
        /\ ConfirmStep \in {2, 3}
        /\ restoredFor = slug => consent \in {NoEvent, slug}
    BY DEF WizardOK, ConfirmStep
  <1>3. ASSUME NEW e \in Events
        PROVE  /\ clearDraft(e) \in [Events -> FormState]
               /\ \A d \in Events : /\ clearDraft(e)[d].from \in {NoEvent, d}
                                    /\ Visibly(clearDraft(e)[d])
    BY <1>2, BlankIsForm DEF clearDraft, Visibly
  <1>4. CASE StartOver
    <2>1. /\ OnStep(0) /\ form' = Blank /\ seats' = 0 /\ restored' = FALSE
          /\ drafts' = clearDraft(slug)
          /\ UNCHANGED <<rule, slug, restoredFor, step, consent, busy, submitted, gone>>
      BY <1>4 DEF StartOver
    <2>2. step = 0 /\ 0 \in 0..Seats /\ rule \in Rules /\ restoredFor \in Events \cup {NoEvent}
      BY <2>1 DEF OnStep, WizardOK
    <2>3. Visibly(form)' /\ \A d \in Events : Visibly(drafts'[d]) = Visibly(drafts[d])'
      BY <2>1, BlankIsForm DEF Visibly
    <2>5. /\ \A d \in Events : drafts'[d].from \in {NoEvent, d} /\ Visibly(drafts[d])'
          /\ drafts' \in [Events -> FormState]
      <3>1. /\ drafts' \in [Events -> FormState]
            /\ \A d \in Events : drafts'[d].from \in {NoEvent, d} /\ Visibly(drafts'[d])
        BY <1>2, <1>3, <2>1, Zenon
      <3>. QED
        BY <2>3, <3>1, Zenon
    <2>6. Visibly(form)' /\ form' \in FormState /\ form'.from = NoEvent
      BY <2>1, BlankIsForm DEF Visibly
    <2>4. \/ submitted' = NoCall
          \/ /\ submitted'.event \in Events /\ submitted'.consent \in Events
             /\ submitted'.form \in FormState /\ submitted'.seats \in Nat /\ busy'
      BY <2>1 DEF WizardOK, NoCall
    <2>7. /\ rule' \in Rules /\ slug' \in Events /\ restoredFor' \in Events \cup {NoEvent}
          /\ restored' \in BOOLEAN /\ busy' \in BOOLEAN /\ gone' \in BOOLEAN
          /\ consent' \in Events \cup {NoEvent}
          /\ restoredFor' = slug' => consent' \in {NoEvent, slug'}
      <3>1. /\ rule \in Rules /\ slug \in Events /\ restoredFor \in Events \cup {NoEvent}
            /\ busy \in BOOLEAN /\ gone \in BOOLEAN /\ consent \in Events \cup {NoEvent}
            /\ restoredFor = slug => consent \in {NoEvent, slug}
        BY <1>2 DEF WizardOK
      <3>2. /\ rule' = rule /\ slug' = slug /\ restoredFor' = restoredFor /\ consent' = consent
            /\ busy' = busy /\ gone' = gone /\ restored' = FALSE
        BY <2>1
      <3>. QED
        BY <3>1, <3>2, Zenon
    <2>8. step' = 0 /\ seats' = 0
      BY <2>1, <2>2
    <2>9. step' \in 0..ConfirmStep /\ seats' \in 0..Seats /\ ~(step' >= 1) /\ ~(step' >= 2)
      BY <2>2, <2>8 DEF ConfirmStep
    <2>. QED
      BY <2>4, <2>5, <2>6, <2>7, <2>9 DEF WizardOK
  <1>5. CASE ToggleSeat
    <2>1. /\ OnStep(1) /\ seats' \in 0..Seats
          /\ UNCHANGED <<rule, slug, restoredFor, restored, step, form, consent, busy, submitted,
                         gone, drafts>>
      BY <1>2, <1>5 DEF ToggleSeat
    <2>2. step = 1
      BY <2>1 DEF OnStep
    <2>. QED
      BY <1>2, <2>1, <2>2, Reshown
  <1>6. CASE Tick
    BY <1>2, <1>6, Reshown DEF Tick
  <1>7. ASSUME NEW n \in 0..ConfirmStep, Turn(n),
               restoredFor = slug /\ n >= 1 => form.details = "valid",
               restoredFor = slug /\ n >= 2 => Ready(form, seats)
        PROVE  WizardOK'
    BY <1>2, <1>7, Reshown DEF Turn
  <1>8. CASE NextStep
    <2>1. step < ConfirmStep /\ restoredFor = slug /\ StepDone /\ Turn(step + 1)
      BY <1>8 DEF NextStep, OnStep
    <2>2. step + 1 \in 0..ConfirmStep
      BY <1>2, <2>1
    <2>3. form.details = "valid"
      BY <1>2, <2>1 DEF StepDone
    <2>4. step >= 1 => Ready(form, seats)
      BY <1>2, <2>1 DEF StepDone, Ready
    <2>. QED
      BY <1>2, <1>7, <2>1, <2>2, <2>3, <2>4
  <1>9. CASE Back \/ EditDetails
    <2>1. PICK n \in 0..step : Turn(n)
      BY <1>2, <1>9 DEF Back, EditDetails
    <2>2. n \in 0..ConfirmStep /\ (n >= 1 => step >= 1) /\ (n >= 2 => step >= 2)
      BY <1>2, <2>1
    <2>. QED
      BY <1>2, <1>7, <2>1, <2>2
  <1>10. CASE Submit
    <2> DEFINE c == [event |-> slug, form |-> form, seats |-> seats, consent |-> consent]
    <2>1. /\ consent # NoEvent /\ busy' = TRUE /\ submitted' = c
          /\ UNCHANGED <<rule, slug, restoredFor, restored, step, form, seats, consent, gone, drafts>>
      BY <1>10 DEF Submit
    <2>2. c.event \in Events /\ c.consent \in Events /\ c.form \in FormState /\ c.seats \in Nat
      BY <1>2, <2>1
    <2> HIDE DEF c
    <2>3. Visibly(form)' = Visibly(form) /\ Ready(form, seats)' = Ready(form, seats)
          /\ \A e \in Events : Visibly(drafts[e])' = Visibly(drafts[e])
      BY <2>1 DEF Visibly, Ready, HasTickets, SeatsSatisfied, MissingAnswers, Chosen
    <2>. QED
      BY <2>1, <2>2, <2>3 DEF WizardOK
  <1>11. ASSUME submitted' = NoCall, UNCHANGED <<rule, slug, restoredFor, restored, form, seats, consent>>,
                busy' \in BOOLEAN, gone' \in BOOLEAN, step' \in {0, step},
                drafts' \in [Events -> FormState],
                \A d \in Events : drafts'[d].from \in {NoEvent, d} /\ Visibly(drafts'[d])
         PROVE  WizardOK'
    <2>1. Visibly(form)' = Visibly(form) /\ Ready(form, seats)' = Ready(form, seats)
          /\ (\A d \in Events : Visibly(drafts'[d]) = Visibly(drafts[d])')
          /\ NoCall' = NoCall
      BY <1>11 DEF Visibly, Ready, HasTickets, SeatsSatisfied, MissingAnswers, Chosen, NoCall
    <2>2. /\ rule' \in Rules /\ slug' \in Events /\ restoredFor' \in Events \cup {NoEvent}
          /\ restored' \in BOOLEAN /\ step' \in 0..ConfirmStep /\ seats' \in 0..Seats
          /\ consent' \in Events \cup {NoEvent} /\ form' \in FormState /\ Visibly(form)
          /\ restoredFor = slug => form.from \in {NoEvent, slug} /\ consent \in {NoEvent, slug}
      BY <1>2, <1>11 DEF WizardOK
    <2>. QED
      BY <1>2, <1>11, <2>1, <2>2 DEF WizardOK
  <1>12. CASE Registered
    <2>1. submitted.event \in Events
      BY <1>12 DEF Registered, WizardOK
    <2>. QED
      BY <1>2, <1>3, <1>11, <1>12, <2>1 DEF Registered
  <1>13. CASE FormRefused \/ CallFails
    BY <1>2, <1>11, <1>13 DEF FormRefused, CallFails
  <1>14. CASE Restore
    <2> DEFINE draft == Loaded(drafts[slug])
    <2>1. /\ form' \in {draft, Blank} /\ restored' \in BOOLEAN /\ restoredFor' = slug
          /\ seats' = 0 /\ consent' = NoEvent /\ step' = 0
          /\ UNCHANGED <<rule, slug, busy, submitted, gone, drafts>>
      BY <1>14 DEF Restore, HasContent
    <2>2. /\ draft \in FormState /\ draft.from = drafts[slug].from
          /\ draft.chosen = drafts[slug].chosen /\ draft.optedIn = drafts[slug].optedIn
      <3>1. drafts[slug] \in FormState
        BY <1>2
      <3>2. numberMap(drafts[slug].qty) \in Counters(Tiers, Nat)
        BY <3>1, FormFields, OnlyIs DEF numberMap
      <3>. QED
        BY <3>1, <3>2 DEF Loaded, FormState
    <2> HIDE DEF draft
    <2>3. Visibly(draft) /\ Visibly(Blank) /\ draft.from \in {NoEvent, slug}
      BY <1>2, <2>2, BlankIsForm DEF Visibly
    <2>4. Visibly(form)' /\ form' \in FormState /\ form'.from \in {NoEvent, slug}
          /\ \A d \in Events : Visibly(drafts[d])' = Visibly(drafts[d])
      BY <2>1, <2>2, <2>3, BlankIsForm DEF Visibly
    <2>5. \/ submitted' = NoCall
          \/ /\ submitted'.event \in Events /\ submitted'.consent \in Events
             /\ submitted'.form \in FormState /\ submitted'.seats \in Nat /\ busy'
      BY <2>1 DEF WizardOK, NoCall
    <2>6. step' \in 0..ConfirmStep /\ seats' \in 0..Seats
      BY <1>2, <2>1
    <2>7. rule \in Rules /\ busy \in BOOLEAN /\ gone \in BOOLEAN
      BY DEF WizardOK
    <2>. QED
      BY <1>2, <2>1, <2>4, <2>5, <2>6, <2>7 DEF WizardOK
  <1>15. ASSUME NEW e \in Events, Navigate(e)
         PROVE  WizardOK'
    <2>1. /\ restoredFor = slug /\ e # slug /\ slug' = e /\ UNCHANGED drafts
          /\ UNCHANGED <<rule, restoredFor, restored, step, form, seats, consent, busy, submitted, gone>>
      BY <1>15 DEF Navigate, Saved
    <2>2. Visibly(form)' = Visibly(form)
          /\ \A d \in Events : Visibly(drafts[d])' = Visibly(drafts[d])
      BY <2>1 DEF Visibly
    <2>3. \/ submitted' = NoCall
          \/ /\ submitted'.event \in Events /\ submitted'.consent \in Events
             /\ submitted'.form \in FormState /\ submitted'.seats \in Nat /\ busy'
      BY <2>1 DEF WizardOK, NoCall
    <2>4. rule \in Rules /\ restoredFor \in Events \cup {NoEvent} /\ Visibly(form)
      BY DEF WizardOK
    <2>. QED
      BY <1>2, <2>1, <2>2, <2>3, <2>4 DEF WizardOK
  <1>16. ASSUME NEW e \in Events, Visit(e)
         PROVE  WizardOK'
    <2>1. /\ slug' = e /\ restoredFor' = NoEvent /\ restored' = FALSE
          /\ step' = 0 /\ form' = Blank /\ seats' = 0 /\ consent' = NoEvent
          /\ busy' = FALSE /\ submitted' = NoCall /\ gone' = FALSE
          /\ UNCHANGED <<rule, drafts>>
      BY <1>16 DEF Visit
    <2>2. Visibly(form)' /\ \A d \in Events : Visibly(drafts[d])' = Visibly(drafts[d])
      BY <2>1, BlankIsForm DEF Visibly
    <2>3. NoCall' = NoCall
      BY BlankIsForm DEF NoCall
    <2>4. step' \in 0..ConfirmStep /\ seats' \in 0..Seats /\ rule \in Rules
      BY <1>2, <2>1 DEF WizardOK
    <2>. QED
      BY <1>2, <2>1, <2>2, <2>3, <2>4, BlankIsForm DEF WizardOK
  <1>. QED
    BY <1>1, <1>4, <1>5, <1>6, <1>8, <1>9, <1>10, <1>12, <1>13, <1>14, <1>15, <1>16, EnterSteps
    DEF WizardNext

LEMMA WizardStart ==
    ASSUME WizardInit
    PROVE  WizardOK
  <1>1. /\ rule \in Rules /\ slug \in Events /\ restoredFor = NoEvent /\ restored = FALSE
        /\ step = 0 /\ form = Blank /\ seats = 0 /\ consent = NoEvent
        /\ busy = FALSE /\ submitted = NoCall /\ gone = FALSE
        /\ drafts = [e \in Events |-> Blank]
    BY DEF WizardInit
  <1>2. step \in 0..ConfirmStep /\ seats \in 0..Seats
    BY <1>1 DEF ConfirmStep
  <1>3. Visibly(Blank) /\ Visibly(form)
    BY <1>1, BlankIsForm DEF Visibly
  <1>4. /\ drafts \in [Events -> FormState]
        /\ \A e \in Events : drafts[e].from \in {NoEvent, e} /\ Visibly(drafts[e])
    BY <1>1, <1>3, BlankIsForm
  <1>. QED
    BY <1>1, <1>2, <1>3, <1>4, BlankIsForm DEF WizardOK

\* What stands on one event's form was entered for it, and whatever somebody goes
\* back to change, the steps behind them hold (registration-wizard.tsx).
THEOREM FormKeepsItsWord == WizardSpec => []WizardInv
  <1>. QED
    BY WizardStart, WizardStep, WizardOKIs, PTL DEF WizardSpec

-----------------------------------------------------------------------------
(* What the form sends is what the server accepts.  A session of several    *)
(* tickets per user is the exception: see the run wizard_total.             *)

SingleSessions == \A s \in Sessions : PerUser[s] = 1

\* The caps and conflicts, of the form and of every draft it may come back from.
Within(f, r) ==
    /\ IsFiniteSet(Tickets(f.qty)) /\ IsFiniteSet(Tickets(f.chosen))
    /\ Total(f.qty) <= r.main /\ Total(f.qty) + Total(f.chosen) <= r.total
    /\ \A s \in DOMAIN f.chosen :
          f.chosen[s] <= PerUser[s] /\ Rivals(s, DOMAIN f.chosen) = {}

CapsOK == /\ Within(form, rule) /\ \A e \in Events : Within(drafts[e], rule)
          /\ SentIsAccepted

Fewer(r, q) == DOMAIN r \subseteq DOMAIN q /\ \A i \in DOMAIN r : r[i] <= q[i]

LEMMA TicketsAre ==
    ASSUME NEW q, NEW x
    PROVE  x \in Tickets(q) <=> \E i \in DOMAIN q : \E n \in 1..q[i] : x = <<i, n>>
  BY DEF Tickets

LEMMA TotalIs ==
    ASSUME NEW q, IsFiniteSet(Tickets(q))
    PROVE  Total(q) \in Nat
  BY FS_CardinalityType DEF Total

LEMMA FewerTickets ==
    ASSUME NEW I, NEW q \in Counters(I, Nat), NEW r \in Counters(I, Nat),
           Fewer(r, q), IsFiniteSet(Tickets(q))
    PROVE  IsFiniteSet(Tickets(r)) /\ Total(r) <= Total(q)
  <1>1. r \in [DOMAIN r -> Nat] /\ q \in [DOMAIN q -> Nat]
    BY CounterIs
  <1>2. ASSUME NEW x \in Tickets(r) PROVE x \in Tickets(q)
    <2>1. PICK i \in DOMAIN r : \E n \in 1..r[i] : x = <<i, n>>
      BY TicketsAre
    <2>2. i \in DOMAIN q /\ r[i] <= q[i] /\ r[i] \in Nat /\ q[i] \in Nat
      BY <1>1, <2>1 DEF Fewer
    <2>3. 1..r[i] \subseteq 1..q[i]
      BY <2>2
    <2>. QED
      BY <2>1, <2>2, <2>3, TicketsAre
  <1>3. Tickets(r) \in SUBSET Tickets(q)
    BY <1>2
  <1>. QED
    BY <1>3, FS_Subset DEF Total

LEMMA OneMoreTicket ==
    ASSUME NEW I, NEW q \in Counters(I, Nat), NEW i \in I, IsFiniteSet(Tickets(q))
    PROVE  LET r == SetCount(q, i, Count(q, i) + 1) IN
           IsFiniteSet(Tickets(r)) /\ Total(r) = Total(q) + 1
  <1> DEFINE n == Count(q, i)
             r == SetCount(q, i, n + 1)
  <1>1. q \in [DOMAIN q -> Nat]
    BY CounterIs
  <1>2. n \in Nat /\ (i \in DOMAIN q => q[i] = n) /\ (i \notin DOMAIN q => n = 0)
    BY <1>1 DEF Count
  <1>3. /\ DOMAIN r = DOMAIN q \cup {i} /\ r[i] = n + 1
        /\ \A j \in DOMAIN q : j # i => r[j] = q[j]
    BY DEF SetCount, Count
  <1> HIDE DEF n, r
  <1>4. <<i, n + 1>> \notin Tickets(q)
    <2> SUFFICES ASSUME <<i, n + 1>> \in Tickets(q) PROVE FALSE
      OBVIOUS
    <2>1. PICK j \in DOMAIN q : \E k \in 1..q[j] : <<i, n + 1>> = <<j, k>>
      BY TicketsAre
    <2>2. PICK k \in 1..q[j] : i = j /\ n + 1 = k
      BY <2>1
    <2>. QED
      BY <1>2, <2>2
  <1>5. ASSUME NEW x
        PROVE  x \in Tickets(r) <=> x \in Tickets(q) \cup {<<i, n + 1>>}
    <2>1. ASSUME x \in Tickets(r) PROVE x \in Tickets(q) \/ x = <<i, n + 1>>
      <3>1. PICK j \in DOMAIN r : \E k \in 1..r[j] : x = <<j, k>>
        BY <2>1, TicketsAre
      <3>2. PICK k \in 1..r[j] : x = <<j, k>>
        BY <3>1
      <3>3. CASE j # i
        BY <1>3, <3>1, <3>2, <3>3, TicketsAre
      <3>4. CASE j = i
        <4>1. k = n + 1 \/ k \in 1..n
          BY <1>2, <1>3, <3>2, <3>4
        <4>2. CASE k \in 1..n
          <5>1. i \in DOMAIN q /\ q[i] = n
            BY <1>2, <4>2
          <5>. QED
            BY <3>2, <3>4, <4>2, <5>1, TicketsAre
        <4>. QED
          BY <3>2, <3>4, <4>1, <4>2
      <3>. QED
        BY <3>3, <3>4
    <2>2. ASSUME x \in Tickets(q) PROVE x \in Tickets(r)
      <3>1. PICK j \in DOMAIN q : \E k \in 1..q[j] : x = <<j, k>>
        BY <2>2, TicketsAre
      <3>2. PICK k \in 1..q[j] : x = <<j, k>>
        BY <3>1
      <3>3. j \in DOMAIN r /\ k \in 1..r[j]
        BY <1>1, <1>2, <1>3, <3>2
      <3>. QED
        BY <3>2, <3>3, TicketsAre
    <2>3. ASSUME x = <<i, n + 1>> PROVE x \in Tickets(r)
      <3>1. i \in DOMAIN r /\ n + 1 \in 1..r[i]
        BY <1>2, <1>3
      <3>. QED
        BY <2>3, <3>1, TicketsAre
    <2>. QED
      BY <2>1, <2>2, <2>3
  <1>6. Tickets(r) = Tickets(q) \cup {<<i, n + 1>>}
    BY <1>5
  <1> DEFINE old == Tickets(q)
             x == <<i, n + 1>>
  <1>7. /\ IsFiniteSet(old \cup {x})
        /\ Cardinality(old \cup {x}) = IF x \in old THEN Cardinality(old) ELSE Cardinality(old) + 1
    <2> HIDE DEF old, x
    <2>. QED
      BY FS_AddElement DEF old
  <1>8. IsFiniteSet(Tickets(r)) /\ Total(r) = Total(q) + 1
    BY <1>4, <1>6, <1>7 DEF Total
  <1>. QED
    BY <1>8 DEF n, r

LEMMA NoTickets == IsFiniteSet(Tickets(Empty)) /\ Total(Empty) = 0
  <1>1. Tickets(Empty) = {}
    BY DEF Tickets, Empty
  <1>. QED
    BY <1>1, FS_EmptySet DEF Total

LEMMA SomeTickets ==
    ASSUME NEW f \in FormState, HasTickets(f), IsFiniteSet(Tickets(f.qty))
    PROVE  Total(f.qty) > 0
  <1>1. PICK t \in DOMAIN f.qty : f.qty[t] > 0
    BY DEF HasTickets
  <1>2. f.qty \in [DOMAIN f.qty -> Nat]
    BY FormFields, CounterIs
  <1>3. <<t, 1>> \in Tickets(f.qty)
    BY <1>1, <1>2, TicketsAre
  <1>4. Total(f.qty) # 0
    BY <1>3, FS_EmptySet DEF Total
  <1>. QED
    BY <1>4, TotalIs

LEMMA BlankIsWithin ==
    ASSUME NEW r \in Rules
    PROVE  Within(Blank, r)
  <1>1. Blank.qty = Empty /\ Blank.chosen = Empty
    BY DEF Blank
  <1>2. r.main \in Nat /\ r.total \in Nat
    BY RuleAssumption
  <1>3. DOMAIN Empty = {}
    BY DEF Empty
  <1>4. Total(Empty) <= r.main /\ Total(Empty) + Total(Empty) <= r.total
    BY <1>2, NoTickets
  <1>. QED
    BY <1>1, <1>3, <1>4, NoTickets DEF Within

\* Whoever takes something out of a form that is within the caps stays within them.
LEMMA FewerIsWithin ==
    ASSUME NEW f \in FormState, NEW g \in FormState, NEW r \in Rules, Within(f, r),
           Fewer(g.qty, f.qty), Fewer(g.chosen, f.chosen)
    PROVE  Within(g, r)
  <1>1. /\ f.qty \in Counters(Tiers, Nat) /\ g.qty \in Counters(Tiers, Nat)
        /\ f.chosen \in Counters(Sessions, Positive) /\ g.chosen \in Counters(Sessions, Positive)
    BY FormFields
  <1>2. f.chosen \in Counters(Sessions, Nat) /\ g.chosen \in Counters(Sessions, Nat)
    BY <1>1, CounterIs DEF Positive
  <1>3. IsFiniteSet(Tickets(g.qty)) /\ Total(g.qty) <= Total(f.qty)
    BY <1>1, FewerTickets DEF Within
  <1>4. IsFiniteSet(Tickets(g.chosen)) /\ Total(g.chosen) <= Total(f.chosen)
    BY <1>2, FewerTickets DEF Within
  <1>5. /\ Total(g.qty) \in Nat /\ Total(f.qty) \in Nat /\ Total(g.chosen) \in Nat
        /\ Total(f.chosen) \in Nat /\ r.main \in Nat /\ r.total \in Nat
    BY <1>3, <1>4, TotalIs, RuleAssumption DEF Within
  <1>6. Total(g.qty) <= r.main /\ Total(g.qty) + Total(g.chosen) <= r.total
    BY <1>3, <1>4, <1>5 DEF Within
  <1>7. ASSUME NEW s \in DOMAIN g.chosen
        PROVE  g.chosen[s] <= PerUser[s] /\ Rivals(s, DOMAIN g.chosen) = {}
    <2>1. /\ s \in DOMAIN f.chosen /\ g.chosen[s] <= f.chosen[s] /\ f.chosen[s] <= PerUser[s]
          /\ Rivals(s, DOMAIN f.chosen) = {} /\ DOMAIN g.chosen \subseteq DOMAIN f.chosen
      BY DEF Fewer, Within
    <2>2. g.chosen[s] \in Nat /\ f.chosen[s] \in Nat /\ PerUser[s] \in Nat
      BY <1>2, <2>1, CounterIs
    <2>3. Rivals(s, DOMAIN g.chosen) \subseteq Rivals(s, DOMAIN f.chosen)
      BY <2>1 DEF Rivals
    <2>. QED
      BY <2>1, <2>2, <2>3
  <1>. QED
    BY <1>3, <1>4, <1>6, <1>7 DEF Within

LEMMA SetCountFewer ==
    ASSUME NEW I, NEW q \in Counters(I, Nat), NEW i \in DOMAIN q, NEW n \in Nat, n <= q[i]
    PROVE  Fewer(SetCount(q, i, n), q)
  <1>1. q \in [DOMAIN q -> Nat]
    BY CounterIs
  <1>. QED
    BY <1>1 DEF Fewer, SetCount

LEMMA OnlyFewer ==
    ASSUME NEW I, NEW q \in Counters(I, Nat), NEW S
    PROVE  Fewer(Only(q, S), q)
  <1>1. q \in [DOMAIN q -> Nat]
    BY CounterIs
  <1>. QED
    BY <1>1 DEF Fewer, Only

LEMMA SameFewer ==
    ASSUME NEW I, NEW q \in Counters(I, Nat)
    PROVE  Fewer(q, q)
  <1>1. q \in [DOMAIN q -> Nat]
    BY CounterIs
  <1>. QED
    BY <1>1 DEF Fewer

\* What is stored is the form of before or the one entered.
LEMMA EnteredWithin ==
    ASSUME WizardOK, CapsOK, NEW f, Enter(f), Within(f, rule)
    PROVE  CapsOK'
  <1> DEFINE g == [f EXCEPT !.from = slug]
  <1>1. g.qty = f.qty /\ g.chosen = f.chosen
    OBVIOUS
  <1>2. /\ form' = g /\ drafts' \in {drafts, [drafts EXCEPT ![slug] = g]}
        /\ UNCHANGED <<rule, submitted>>
    BY DEF Enter, Saved, saveDraft
  <1>3. Within(g, rule)
    BY <1>1 DEF Within
  <1> HIDE DEF g
  <1>4. drafts \in [Events -> FormState]
    BY DEF WizardOK
  <1>5. \A e \in Events : Within(drafts'[e], rule)
    BY <1>2, <1>3, <1>4 DEF CapsOK
  <1>6. /\ Within(form, rule)' = Within(form', rule')
        /\ \A e \in Events : Within(drafts[e], rule)' = Within(drafts'[e], rule')
    BY DEF Within
  <1>7. SentIsAccepted'
    BY <1>2 DEF CapsOK, SentIsAccepted, Accepted, NoCall
  <1>. QED
    BY <1>2, <1>3, <1>5, <1>6, <1>7 DEF CapsOK

LEMMA StillWithin ==
    ASSUME CapsOK, rule' = rule, submitted' \in {submitted, NoCall},
           Within(form', rule), \A e \in Events : Within(drafts'[e], rule)
    PROVE  CapsOK'
  <1>1. /\ Within(form, rule)' = Within(form', rule')
        /\ \A e \in Events : Within(drafts[e], rule)' = Within(drafts'[e], rule')
    BY DEF Within
  <1>2. SentIsAccepted'
    BY DEF CapsOK, SentIsAccepted, Accepted, NoCall
  <1>. QED
    BY <1>1, <1>2 DEF CapsOK

LEMMA EnterWithin ==
    ASSUME SingleSessions, WizardOK, CapsOK,
           \/ TypeDetails \/ AnswerQuestion
           \/ \E t \in Tiers : ChooseTier(t) \/ AddTicket(t) \/ RemoveTicket(t)
           \/ \E c \in Gated : ToggleCategory(c)
           \/ \E s \in Sessions : AddSession(s) \/ RemoveSession(s)
    PROVE  CapsOK'
  <1>1. form \in FormState /\ rule \in Rules /\ Within(form, rule)
    BY DEF WizardOK, CapsOK
  <1>2. /\ form.qty \in Counters(Tiers, Nat) /\ form.chosen \in Counters(Sessions, Nat)
        /\ form.chosen \in Counters(Sessions, Positive)
        /\ form.details \in {"blank", "partial", "valid"} /\ form.optedIn \subseteq Gated
        /\ rule.main \in Nat /\ rule.total \in Nat
    BY <1>1, FormFields, CounterIs, RuleAssumption DEF Positive
  <1>3. /\ IsFiniteSet(Tickets(form.qty)) /\ IsFiniteSet(Tickets(form.chosen))
        /\ Total(form.qty) \in Nat /\ Total(form.chosen) \in Nat
        /\ Total(form.qty) <= rule.main /\ Total(form.qty) + Total(form.chosen) <= rule.total
    BY <1>1, TotalIs DEF Within
  <1>4. ASSUME NEW g \in FormState, Enter(g), Fewer(g.qty, form.qty), Fewer(g.chosen, form.chosen)
        PROVE  CapsOK'
    BY <1>1, <1>4, FewerIsWithin, EnteredWithin
  <1>5. Fewer(form.qty, form.qty) /\ Fewer(form.chosen, form.chosen)
    BY <1>2, SameFewer
  <1>6. ASSUME NEW q \in Counters(Tiers, Nat), Enter([form EXCEPT !.qty = q]),
               \/ Fewer(q, form.qty)
               \/ /\ IsFiniteSet(Tickets(q)) /\ Total(q) <= rule.main
                  /\ Total(q) + Total(form.chosen) <= rule.total
        PROVE  CapsOK'
    <2> DEFINE g == [form EXCEPT !.qty = q]
    <2>1. g \in FormState /\ g.qty = q /\ g.chosen = form.chosen
      BY <1>1, <1>6 DEF FormState
    <2>2. Enter(g)
      BY <1>6
    <2> HIDE DEF g
    <2>3. CASE Fewer(q, form.qty)
      BY <1>4, <1>5, <2>1, <2>2, <2>3
    <2>4. CASE /\ IsFiniteSet(Tickets(q)) /\ Total(q) <= rule.main
               /\ Total(q) + Total(form.chosen) <= rule.total
      <3>1. Within(g, rule)
        BY <1>1, <2>1, <2>4 DEF Within
      <3>. QED
        BY <2>2, <3>1, EnteredWithin
    <2>. QED
      BY <1>6, <2>3, <2>4
  <1>7. ASSUME NEW p \in Counters(Sessions, Positive), Enter([form EXCEPT !.chosen = p]),
               \/ Fewer(p, form.chosen)
               \/ /\ IsFiniteSet(Tickets(p)) /\ Total(form.qty) + Total(p) <= rule.total
                  /\ \A s \in DOMAIN p : p[s] <= PerUser[s] /\ Rivals(s, DOMAIN p) = {}
        PROVE  CapsOK'
    <2> DEFINE g == [form EXCEPT !.chosen = p]
    <2>1. g \in FormState /\ g.qty = form.qty /\ g.chosen = p
      BY <1>1, <1>7 DEF FormState
    <2>2. Enter(g)
      BY <1>7
    <2> HIDE DEF g
    <2>3. CASE Fewer(p, form.chosen)
      BY <1>4, <1>5, <2>1, <2>2, <2>3
    <2>4. CASE /\ IsFiniteSet(Tickets(p)) /\ Total(form.qty) + Total(p) <= rule.total
               /\ \A s \in DOMAIN p : p[s] <= PerUser[s] /\ Rivals(s, DOMAIN p) = {}
      <3>1. Within(g, rule)
        BY <1>1, <2>1, <2>4 DEF Within
      <3>. QED
        BY <2>2, <3>1, EnteredWithin
    <2>. QED
      BY <1>7, <2>3, <2>4
  <1>8. CASE TypeDetails
    <2>1. PICK d \in {"blank", "partial", "valid"} : Enter([form EXCEPT !.details = d])
      BY <1>8 DEF TypeDetails
    <2> DEFINE g == [form EXCEPT !.details = d]
    <2>2. g \in FormState /\ g.qty = form.qty /\ g.chosen = form.chosen
      BY <1>1 DEF FormState
    <2>. QED
      BY <1>4, <1>5, <2>1, <2>2
  <1>9. CASE AnswerQuestion
    <2>1. PICK a \in {"blank", "given"} : Enter([form EXCEPT !.answers = a])
      BY <1>9 DEF AnswerQuestion
    <2> DEFINE g == [form EXCEPT !.answers = a]
    <2>2. g \in FormState /\ g.qty = form.qty /\ g.chosen = form.chosen
      BY <1>1 DEF FormState
    <2>. QED
      BY <1>4, <1>5, <2>1, <2>2
  <1>10. ASSUME NEW t \in Tiers, ChooseTier(t)
         PROVE  CapsOK'
    <2>1. Empty \in Counters(Tiers, Nat) /\ DOMAIN Empty = {} /\ Fewer(Empty, form.qty)
      BY EmptyIs DEF Fewer
    <2>2. CASE Enter([form EXCEPT !.qty = Empty])
      BY <1>6, <2>1, <2>2
    <2>3. CASE /\ rule.main = 1 /\ ~SingleChoiceBlocked
               /\ Enter([form EXCEPT !.qty = SetCount(Empty, t, 1)])
      <3> DEFINE q == SetCount(Empty, t, 1)
      <3>1. Count(Empty, t) + 1 = 1
        BY <2>1 DEF Count
      <3>2. q \in Counters(Tiers, Nat)
        BY <2>1, SetCountIs
      <3>3. IsFiniteSet(Tickets(q)) /\ Total(q) = 0 + 1
        BY <2>1, <3>1, NoTickets, OneMoreTicket
      <3> HIDE DEF q
      <3>4. Total(q) <= rule.main /\ Total(q) + Total(form.chosen) <= rule.total
        BY <1>2, <1>3, <2>3, <3>3 DEF SingleChoiceBlocked
      <3>5. Enter([form EXCEPT !.qty = q])
        BY <2>3 DEF q
      <3>. QED
        BY <1>6, <3>2, <3>3, <3>4, <3>5
    <2>. QED
      BY <1>10, <2>2, <2>3 DEF ChooseTier
  <1>11. ASSUME NEW t \in Tiers, AddTicket(t)
         PROVE  CapsOK'
    <2> DEFINE q == SetCount(form.qty, t, Count(form.qty, t) + 1)
    <2>1. q \in Counters(Tiers, Nat)
      <3>1. Count(form.qty, t) + 1 \in Nat
        BY <1>2, CountIs
      <3>. QED
        BY <1>2, <3>1, SetCountIs, Zenon
    <2>2. IsFiniteSet(Tickets(q)) /\ Total(q) = Total(form.qty) + 1
      BY <1>2, <1>3, OneMoreTicket
    <2>3. Enter([form EXCEPT !.qty = q]) /\ CanAddMainTicket
      BY <1>11 DEF AddTicket
    <2> HIDE DEF q
    <2>4. Total(q) <= rule.main /\ Total(q) + Total(form.chosen) <= rule.total
      BY <1>2, <1>3, <2>2, <2>3 DEF CanAddMainTicket
    <2>. QED
      BY <1>6, <2>1, <2>2, <2>3, <2>4
  <1>12. ASSUME NEW t \in Tiers, RemoveTicket(t)
         PROVE  CapsOK'
    <2> DEFINE n == form.qty[t] - 1
               q == SetCount(form.qty, t, n)
    <2>1. Enter([form EXCEPT !.qty = q]) /\ Count(form.qty, t) > 0
      BY <1>12 DEF RemoveTicket
    <2>2. t \in DOMAIN form.qty /\ form.qty[t] \in Nat /\ form.qty[t] > 0
      BY <1>2, <2>1, CountIs
    <2>3. n \in Nat /\ n <= form.qty[t]
      BY <2>2
    <2> HIDE DEF n
    <2>4. q \in Counters(Tiers, Nat) /\ Fewer(q, form.qty)
      BY <1>2, <2>2, <2>3, SetCountIs, SetCountFewer
    <2> HIDE DEF q
    <2>. QED
      BY <1>6, <2>1, <2>4
  <1>13. ASSUME NEW c \in Gated, ToggleCategory(c)
         PROVE  CapsOK'
    <2> DEFINE opted == IF c \in form.optedIn THEN form.optedIn \ {c} ELSE form.optedIn \cup {c}
               p == Only(form.chosen, {s \in Sessions : Visible(s, opted)})
               g == [form EXCEPT !.optedIn = opted, !.chosen = p]
    <2>1. Enter(g)
      BY <1>13 DEF ToggleCategory
    <2>2. opted \subseteq Gated
      BY <1>2
    <2> HIDE DEF opted
    <2>3. p \in Counters(Sessions, Positive) /\ Fewer(p, form.chosen)
      BY <1>2, OnlyIs, OnlyFewer
    <2> HIDE DEF p
    <2>4. g \in FormState /\ g.qty = form.qty /\ g.chosen = p
      BY <1>1, <2>2, <2>3 DEF FormState
    <2>. QED
      BY <1>4, <1>5, <2>1, <2>3, <2>4
  <1>14. ASSUME NEW s \in Sessions, AddSession(s)
         PROVE  CapsOK'
    <2> DEFINE p == SetCount(form.chosen, s, Count(form.chosen, s) + 1)
    <2>1. /\ Enter([form EXCEPT !.chosen = p]) /\ Count(form.chosen, s) < PerUser[s]
          /\ Count(form.chosen, s) = 0 => Selectable(s)
      BY <1>14 DEF AddSession
    <2>2. Count(form.chosen, s) = 0 /\ Selectable(s)
      <3>1. Count(form.chosen, s) \in Nat /\ PerUser[s] = 1
        BY <1>2, CountIs DEF SingleSessions
      <3>. QED
        BY <2>1, <3>1
    <2>3. s \notin DOMAIN form.chosen
      <3>1. s \in DOMAIN form.chosen => form.chosen[s] \in Nat /\ form.chosen[s] > 0
        BY <1>2, CounterIs DEF Positive
      <3>. QED
        BY <2>2, <3>1 DEF Count
    <2>4. /\ DOMAIN p = DOMAIN form.chosen \cup {s} /\ p[s] = 1
          /\ \A r \in DOMAIN form.chosen : p[r] = form.chosen[r]
      BY <2>2, <2>3 DEF SetCount, Count
    <2>5. p \in Counters(Sessions, Positive)
      <3>1. Count(form.chosen, s) + 1 \in Positive
        BY <2>2 DEF Positive
      <3>. QED
        BY <1>2, <3>1, SetCountIs, Zenon
    <2>6. IsFiniteSet(Tickets(p)) /\ Total(p) = Total(form.chosen) + 1
      BY <1>2, <1>3, OneMoreTicket
    <2> HIDE DEF p
    <2>7. Total(form.qty) + Total(p) <= rule.total
      BY <1>2, <1>3, <2>2, <2>6 DEF Selectable, TotalAllowance
    <2>8. ASSUME NEW r \in DOMAIN p
          PROVE  p[r] <= PerUser[r] /\ Rivals(r, DOMAIN p) = {}
      <3>1. Rivals(s, DOMAIN form.chosen) = {}
        BY <2>2 DEF Selectable
      <3>2. CASE r = s
        <4>1. Rivals(s, DOMAIN p) = Rivals(s, DOMAIN form.chosen)
          BY <2>4 DEF Rivals
        <4>. QED
          BY <2>4, <3>1, <3>2, <4>1 DEF SingleSessions
      <3>3. CASE r # s
        <4>1. r \in DOMAIN form.chosen
          BY <2>4, <3>3
        <4>2. form.chosen[r] <= PerUser[r] /\ Rivals(r, DOMAIN form.chosen) = {}
          BY <1>1, <4>1 DEF Within
        <4>3. s \notin Rivals(r, DOMAIN p)
          BY <3>1, <3>3, <4>1 DEF Rivals, Overlaps
        <4>4. Rivals(r, DOMAIN p) \subseteq Rivals(r, DOMAIN form.chosen) \cup {s}
          BY <2>4 DEF Rivals
        <4>. QED
          BY <2>4, <4>1, <4>2, <4>3, <4>4
      <3>. QED
        BY <3>2, <3>3
    <2>. QED
      BY <1>7, <2>1, <2>5, <2>6, <2>7, <2>8
  <1>15. ASSUME NEW s \in Sessions, RemoveSession(s)
         PROVE  CapsOK'
    <2>1. s \in DOMAIN form.chosen /\ form.chosen[s] \in Positive /\ form.chosen[s] \in Nat
      BY <1>2, <1>15, CounterIs DEF RemoveSession
    <2>2. CASE form.chosen[s] = 1
      <3> DEFINE p == Only(form.chosen, Sessions \ {s})
      <3>1. p \in Counters(Sessions, Positive) /\ Fewer(p, form.chosen)
        BY <1>2, OnlyIs, OnlyFewer
      <3>2. Enter([form EXCEPT !.chosen = p])
        BY <1>15, <2>2 DEF RemoveSession
      <3> HIDE DEF p
      <3>. QED
        BY <1>7, <3>1, <3>2
    <2>3. CASE form.chosen[s] # 1
      <3> DEFINE n == form.chosen[s] - 1
                 p == SetCount(form.chosen, s, n)
      <3>1. n \in Positive /\ n \in Nat /\ n <= form.chosen[s]
        BY <2>1, <2>3 DEF Positive
      <3>2. Enter([form EXCEPT !.chosen = p])
        BY <1>15, <2>3 DEF RemoveSession
      <3> HIDE DEF n
      <3>3. p \in Counters(Sessions, Positive) /\ Fewer(p, form.chosen)
        BY <1>2, <2>1, <3>1, SetCountIs, SetCountFewer
      <3> HIDE DEF p
      <3>. QED
        BY <1>7, <3>2, <3>3
    <2>. QED
      BY <2>2, <2>3
  <1>. QED
    BY <1>8, <1>9, <1>10, <1>11, <1>12, <1>13, <1>14, <1>15

\* What is sent is the form of the last step, which every step before it has checked.
LEMMA SubmitIsAccepted ==
    ASSUME WizardOK, CapsOK, Submit
    PROVE  CapsOK'
  <1> DEFINE c == [event |-> slug, form |-> form, seats |-> seats, consent |-> consent]
  <1>1. /\ restoredFor = slug /\ step = ConfirmStep /\ consent # NoEvent
        /\ submitted' = c /\ UNCHANGED <<rule, form, drafts>>
    BY DEF Submit, OnStep
  <1>2. step >= 1 /\ step >= 2
    BY <1>1 DEF ConfirmStep
  <1>3. /\ form \in FormState /\ rule \in Rules /\ form.details = "valid" /\ Ready(form, seats)
        /\ consent = slug /\ Within(form, rule)
    BY <1>1, <1>2 DEF WizardOK, CapsOK
  <1>4. /\ c.event = slug /\ c.form = form /\ c.seats = seats /\ c.consent = slug
    BY <1>3
  <1> HIDE DEF c
  <1>5. Total(form.qty) > 0
    BY <1>3, SomeTickets DEF Ready, Within
  <1>6. Accepted(c)
    BY <1>3, <1>4, <1>5 DEF Accepted, Ready, Within
  <1>7. SentIsAccepted'
    BY <1>1, <1>6 DEF SentIsAccepted, Accepted
  <1>8. /\ Within(form, rule)' = Within(form, rule)
        /\ \A e \in Events : Within(drafts[e], rule)' = Within(drafts[e], rule)
    BY <1>1 DEF Within
  <1>. QED
    BY <1>7, <1>8 DEF CapsOK

LEMMA CapsStep ==
    ASSUME SingleSessions, WizardOK, CapsOK, [WizardNext]_wizardVars
    PROVE  CapsOK'
  <1>1. /\ rule \in Rules /\ slug \in Events /\ form \in FormState
        /\ drafts \in [Events -> FormState] /\ Within(form, rule)
        /\ \A e \in Events : Within(drafts[e], rule)
    BY DEF WizardOK, CapsOK
  <1>2. Within(Blank, rule)
    BY <1>1, BlankIsWithin
  <1>3. ASSUME NEW e \in Events
        PROVE  \A d \in Events : Within(clearDraft(e)[d], rule)
    BY <1>1, <1>2 DEF clearDraft
  <1>4. CASE UNCHANGED wizardVars
    BY <1>1, <1>4, StillWithin DEF wizardVars, page
  <1>5. CASE StartOver
    BY <1>1, <1>2, <1>3, <1>5, StillWithin DEF StartOver
  <1>6. CASE ToggleSeat \/ Tick \/ NextStep \/ Back \/ EditDetails
    BY <1>1, <1>6, StillWithin DEF ToggleSeat, Tick, NextStep, Back, EditDetails, Turn
  <1>7. CASE Registered
    <2>1. submitted.event \in Events
      BY <1>7 DEF Registered, WizardOK
    <2>. QED
      BY <1>1, <1>3, <1>7, <2>1, StillWithin DEF Registered
  <1>8. CASE FormRefused \/ CallFails
    BY <1>1, <1>8, StillWithin DEF FormRefused, CallFails
  <1>9. CASE Restore
    <2> DEFINE old == drafts[slug]
               draft == Loaded(old)
    <2>1. form' \in {draft, Blank} /\ UNCHANGED <<rule, submitted, drafts>>
      BY <1>9 DEF Restore
    <2>2. old \in FormState /\ Within(old, rule) /\ old.qty \in Counters(Tiers, Nat)
          /\ old.chosen \in Counters(Sessions, Nat)
      BY <1>1, FormFields, CounterIs DEF Positive
    <2> HIDE DEF old
    <2>3. numberMap(old.qty) \in Counters(Tiers, Nat) /\ Fewer(numberMap(old.qty), old.qty)
      BY <2>2, OnlyIs, OnlyFewer DEF numberMap
    <2>4. draft \in FormState /\ draft.qty = numberMap(old.qty) /\ draft.chosen = old.chosen
      BY <2>2, <2>3 DEF Loaded, FormState
    <2> HIDE DEF draft
    <2>5. Fewer(old.chosen, old.chosen)
      BY <2>2, SameFewer
    <2>6. Within(draft, rule)
      BY <1>1, <2>2, <2>3, <2>4, <2>5, FewerIsWithin
    <2>. QED
      BY <1>1, <1>2, <2>1, <2>6, StillWithin
  <1>10. ASSUME NEW e \in Events, Navigate(e)
         PROVE  CapsOK'
    BY <1>1, <1>10, StillWithin DEF Navigate, Saved
  <1>11. ASSUME NEW e \in Events, Visit(e)
         PROVE  CapsOK'
    BY <1>1, <1>2, <1>11, StillWithin DEF Visit
  <1>. QED
    BY <1>4, <1>5, <1>6, <1>7, <1>8, <1>9, <1>10, <1>11, SubmitIsAccepted, EnterWithin
    DEF WizardNext

LEMMA CapsStart ==
    ASSUME WizardInit
    PROVE  CapsOK
  <1>1. /\ rule \in Rules /\ form = Blank /\ drafts = [e \in Events |-> Blank]
        /\ submitted = NoCall
    BY DEF WizardInit
  <1>. QED
    BY <1>1, BlankIsWithin DEF CapsOK, SentIsAccepted

\* Where every session is for one ticket per user, whatever the form submits passes
\* the server's own check: caps, conflicts, seats, answers and consents, in whatever
\* order the form was filled in and from whatever draft (registration-wizard.tsx
\* against validateSelection).
THEOREM FormsAreAccepted == SingleSessions => (WizardSpec => []SentIsAccepted)
  <1> SUFFICES ASSUME SingleSessions PROVE WizardSpec => []SentIsAccepted
    OBVIOUS
  <1>1. WizardInit => WizardOK /\ CapsOK
    BY WizardStart, CapsStart
  <1>2. WizardOK /\ CapsOK /\ [WizardNext]_wizardVars => (WizardOK /\ CapsOK)'
    BY WizardStep, CapsStep
  <1>3. CapsOK => SentIsAccepted
    BY DEF CapsOK
  <1>. QED
    BY <1>1, <1>2, <1>3, PTL DEF WizardSpec

\* The form and the account of the run, side by side.
THEOREM AttendeeIsSafe == MCSpec => [](AttendeeInv /\ SessionsMatchPassword)
  <1> DEFINE Inv == WizardOK /\ IInv
  <1>1. MCInit => Inv
    BY WizardStart, InitInv DEF MCInit
  <1>2. Inv /\ [MCNext]_attendeeVars => Inv'
    <2> SUFFICES ASSUME Inv, [MCNext]_attendeeVars
                 PROVE  Inv'
      OBVIOUS
    <2>1. [WizardNext]_wizardVars
      BY DEF MCNext, attendeeVars, MCWizardNext
    <2>2. [AccountsNext]_accountsVars
      BY DEF MCNext, attendeeVars
    <2>. QED
      BY <2>1, <2>2, WizardStep, InvStep
  <1>3. Inv => AttendeeInv /\ SessionsMatchPassword
    BY WizardOKIs, AccountsAreSound DEF AttendeeInv
  <1>. QED
    BY <1>1, <1>2, <1>3, PTL DEF MCSpec
=============================================================================
