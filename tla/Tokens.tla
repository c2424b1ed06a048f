------------------------------- MODULE Tokens -------------------------------
(* The OAuth tokens of the open account (mailclient.cpp, oauthhelper.cpp,  *)
(* accountstore.cpp): a refresh token read from the wallet, an access token *)
(* asked for with it or through the browser, and the callers parked until   *)
(* one comes.  One helper and one "in flight" flag serve every account, and *)
(* an account may be opened while any of it is under way.                   *)
EXTENDS Naturals, FiniteSets

CONSTANTS Accounts, Nobody,
          MaxSwitches, MaxAsks \* bounds: times an account is opened, acquisitions begun

TokensAssumption == Nobody \notin Accounts /\ {MaxSwitches, MaxAsks} \subseteq Nat

\* A token is the account it was issued for.
VARIABLES account,    \* the open account
          wallet,     \* stored refresh token, by the account's key
          reads,      \* wallet reads under way: account and generation
          gen,        \* m_walletGen
          ready,      \* m_secretReady
          wanted,     \* m_connectWhenReady
          refreshTok, \* m_refreshToken
          access,     \* m_accessToken, while in date
          inFlight,   \* m_tokenInFlight
          refreshing, \* m_refreshInFlight
          waiters,    \* m_tokenWaiters
          resolving,  \* the client's secret is being read from the wallet
          linkOnly,   \* m_signInLinkOnly
          signIn,     \* the sign-in the listener waits for (m_state), 0 for none
          signedFor,  \* whose address the browser was offered
          timers,     \* sign-ins whose timeout is armed
          request,    \* owners of the tokens asked of the token endpoint: at most one
          dialled,    \* account and token the connection was made with
          switches, asks,
          crossed     \* ghost: an account was opened while a token was being acquired

store == <<wallet, reads, gen, ready, wanted>>
held  == <<refreshTok, access>>
help  == <<signIn, signedFor, timers, request>>
vars  == <<account, store, held, inFlight, refreshing, waiters, resolving, linkOnly, help,
           dialled, switches, asks, crossed>>

(***************************************************************************)
(* Asking for a token.                                                     *)
(***************************************************************************)
\* Every definition here gives the next value of <<waiters, inFlight, ...>>: a
\* caller joins the acquisition under way, or begins one.
Join(w) == waiters' = waiters \cup {w}

\* refresh() when a refresh token is held; else a sign-in through the browser.
Refresh(owner) == /\ request' = request \cup {owner} /\ refreshing' = TRUE
                  /\ UNCHANGED <<signIn, signedFor, timers>>
Authorize      == LET n == asks' IN
                  /\ signIn' = n /\ signedFor' = account /\ timers' = timers \cup {n}
                  /\ UNCHANGED <<request, refreshing>>
Start(owner)   == /\ linkOnly' = FALSE
                  /\ IF ~linkOnly /\ owner # Nobody THEN Refresh(owner) ELSE Authorize

\* The client id comes at once, or its secret is read from the wallet first.
AcquireToken(w) ==
  /\ Join(w)
  /\ IF inFlight THEN UNCHANGED <<inFlight, refreshing, resolving, linkOnly, help, asks>>
     ELSE /\ asks < MaxAsks /\ asks' = asks + 1 /\ inFlight' = TRUE
          /\ \/ Start(refreshTok) /\ UNCHANGED resolving
             \/ resolving' = TRUE /\ UNCHANGED <<refreshing, linkOnly, help>>

Resolved ==
  /\ resolving /\ resolving' = FALSE /\ UNCHANGED asks /\ Start(refreshTok)
  /\ UNCHANGED <<account, store, held, inFlight, waiters, dialled, switches, crossed>>

Idle == UNCHANGED <<inFlight, refreshing, waiters, resolving, linkOnly, help, asks>>

\* connectAccount()
ConnectAccount ==
  IF ~ready THEN wanted' = TRUE /\ dialled' = dialled /\ Idle
  ELSE IF access = Nobody THEN AcquireToken("connect") /\ UNCHANGED <<wanted, dialled>>
  ELSE dialled' = <<account, access>> /\ Idle /\ UNCHANGED wanted

\* A dropped connection is dialled again two seconds later.
Reconnect ==
  /\ ConnectAccount
  /\ UNCHANGED <<account, wallet, reads, gen, ready, held, switches, crossed>>

\* ensureAccessToken() of a send.
Send ==
  /\ ready /\ access = Nobody /\ AcquireToken("send")
  /\ UNCHANGED <<account, store, held, dialled, switches, crossed>>

\* The access token runs out.
Expire ==
  /\ access # Nobody /\ access' = Nobody
  /\ UNCHANGED <<account, store, refreshTok, inFlight, refreshing, waiters, resolving, linkOnly,
                 help, dialled, switches, asks, crossed>>

\* The link is copied instead of opening a browser, stored token or not.
CopyLink ==
  /\ signIn = 0 /\ ~inFlight /\ asks < MaxAsks
  /\ asks' = asks + 1 /\ inFlight' = TRUE /\ Join("link")
  /\ \/ Authorize /\ UNCHANGED <<resolving, linkOnly>>
     \/ resolving' = TRUE /\ linkOnly' = TRUE /\ UNCHANGED <<refreshing, help>>
  /\ UNCHANGED <<account, store, held, dialled, switches, crossed>>

(***************************************************************************)
(* Answers.                                                                *)
(***************************************************************************)
\* Its own connection is dialled, or re-armed, with the token in hand.
Waited == IF "connect" \in waiters \/ ("link" \in waiters /\ dialled = Nobody) \/ dialled # Nobody
          THEN dialled' = <<account, access'>> ELSE dialled' = dialled

\* tokensReady(): the tokens become the open account's, under its key.
TokensReady(t, fresh) ==
  /\ access' = t /\ refreshing' = FALSE /\ inFlight' = FALSE /\ waiters' = {}
  /\ IF fresh /\ t # refreshTok THEN refreshTok' = t /\ wallet' = [wallet EXCEPT ![account] = t]
     ELSE UNCHANGED <<refreshTok, wallet>>
  /\ IF ready THEN Waited /\ UNCHANGED wanted
     ELSE /\ wanted' = (wanted \/ waiters \cap {"connect", "link"} # {})
          /\ dialled' = (IF dialled = Nobody THEN Nobody ELSE <<account, t>>)

Granted(t, fresh) ==
  /\ t \in request /\ request' = request \ {t} /\ TokensReady(t, fresh)
  /\ UNCHANGED <<account, reads, gen, ready, resolving, linkOnly, signIn, signedFor, timers,
                 switches, asks, crossed>>

\* failed(): a dead refresh token is dropped, but only when the refresh failed.
DropsAlways == TRUE   \* an abandoned sign-in costs the stored token too
Drops == refreshing
Failed ==
  /\ inFlight' = FALSE /\ waiters' = {} /\ refreshing' = FALSE
  /\ IF Drops /\ refreshTok # Nobody
     THEN refreshTok' = Nobody /\ wallet' = [wallet EXCEPT ![account] = Nobody]
     ELSE UNCHANGED <<refreshTok, wallet>>

Refused(t) ==
  /\ t \in request /\ request' = request \ {t} /\ Failed
  /\ UNCHANGED <<account, reads, gen, ready, wanted, access, resolving, linkOnly, signIn,
                 signedFor, timers, dialled, switches, asks, crossed>>

\* The browser comes back with a code, redeemed once; or with an error.
Redirected ==
  /\ signIn # 0 /\ signIn' = 0 /\ request' = request \cup {signedFor}
  /\ UNCHANGED <<account, store, held, inFlight, refreshing, waiters, resolving, linkOnly,
                 signedFor, timers, dialled, switches, asks, crossed>>
Declined ==
  /\ signIn # 0 /\ signIn' = 0 /\ Failed
  /\ UNCHANGED <<account, reads, gen, ready, wanted, access, resolving, linkOnly, signedFor,
                 timers, request, dialled, switches, asks, crossed>>

\* Only whether some sign-in waits is looked at, not which.
TimedOut(n) ==
  /\ n \in timers /\ timers' = timers \ {n}
  /\ IF signIn = 0 THEN UNCHANGED <<signIn, inFlight, waiters, refreshing, refreshTok, wallet>>
     ELSE signIn' = 0 /\ Failed
  /\ UNCHANGED <<account, reads, gen, ready, wanted, access, resolving, linkOnly, signedFor,
                 request, dialled, switches, asks, crossed>>

(***************************************************************************)
(* The wallet, and opening another account.                                *)
(***************************************************************************)
\* readSecret(), which every switch begins anew.
SwitchAccount(a) ==
  /\ a # account /\ switches < MaxSwitches /\ switches' = switches + 1
  /\ account' = a /\ refreshTok' = Nobody /\ access' = Nobody /\ dialled' = Nobody
  /\ ready' = FALSE /\ wanted' = TRUE /\ gen' = gen + 1
  /\ reads' = reads \cup {[account |-> a, gen |-> gen + 1]}
  /\ crossed' = (crossed \/ inFlight)
  /\ UNCHANGED <<wallet, inFlight, refreshing, waiters, resolving, linkOnly, help, asks>>

StaleNot(r) == FALSE /\ r = r   \* whatever a read returns is taken
Stale(r)    == r.gen # gen
SecretRead(r) ==
  /\ r \in reads /\ reads' = reads \ {r}
  /\ UNCHANGED <<account, wallet, gen, access, switches, crossed>>
  /\ IF Stale(r) THEN UNCHANGED <<ready, wanted, refreshTok, dialled>> /\ Idle
     ELSE /\ ready' = TRUE /\ refreshTok' = wallet[r.account] /\ wanted' = FALSE
          /\ IF ~wanted THEN UNCHANGED dialled /\ Idle
             ELSE IF access # Nobody THEN dialled' = <<account, access>> /\ Idle
             ELSE /\ UNCHANGED dialled /\ Join("connect")
                  /\ IF inFlight THEN UNCHANGED <<inFlight, refreshing, resolving, linkOnly, help, asks>>
                     ELSE /\ asks < MaxAsks /\ asks' = asks + 1 /\ inFlight' = TRUE
                          /\ \/ Start(refreshTok') /\ UNCHANGED resolving
                             \/ resolving' = TRUE /\ UNCHANGED <<refreshing, linkOnly, help>>

Init ==
  /\ account \in Accounts /\ wallet \in [Accounts -> Accounts \cup {Nobody}]
  /\ \A a \in Accounts : wallet[a] \in {a, Nobody}
  /\ reads = {[account |-> account, gen |-> 1]} /\ gen = 1 /\ ready = FALSE /\ wanted = TRUE
  /\ refreshTok = Nobody /\ access = Nobody
  /\ inFlight = FALSE /\ refreshing = FALSE /\ waiters = {} /\ resolving = FALSE /\ linkOnly = FALSE
  /\ signIn = 0 /\ signedFor = Nobody /\ timers = {} /\ request = {}
  /\ dialled = Nobody /\ switches = 0 /\ asks = 0 /\ crossed = FALSE

Next ==
  \/ Resolved \/ Reconnect \/ Send \/ Expire \/ CopyLink \/ Redirected \/ Declined
  \/ \E t \in Accounts : Refused(t) \/ \E fresh \in BOOLEAN : Granted(t, fresh)
  \/ \E n \in timers : TimedOut(n)
  \/ \E a \in Accounts : SwitchAccount(a)
  \/ \E r \in reads : SecretRead(r)
Spec == Init /\ [][Next]_vars

(***************************************************************************)
(* Properties.                                                             *)
(***************************************************************************)
\* Every parked caller is called back: while one waits, or while the flag that
\* makes later callers park is up, exactly one thing is under way that ends it,
\* and a browser nobody comes back from is itself bounded by its timeout.
NobodyIsParked ==
  /\ waiters # {} => inFlight
  /\ inFlight => Cardinality(request) + (IF resolving THEN 1 ELSE 0) + (IF signIn # 0 THEN 1 ELSE 0) = 1
  /\ signIn # 0 => signIn \in timers

\* Tokens stay with the account they were issued for: in memory, in the wallet
\* and on the wire.  (Where no account is opened during an acquisition: one
\* that is gets the other's tokens, see the findings.)
TokensOf(a, t)  == t \in {a, Nobody}
TokensStayHome ==
  ~crossed => /\ TokensOf(account, access) /\ TokensOf(account, refreshTok)
              /\ \A a \in Accounts : TokensOf(a, wallet[a])
              /\ dialled # Nobody => dialled[1] = account /\ TokensOf(account, dialled[2])

\* A stored sign-in is given up only by a refresh the provider refused, never by
\* a browser tab left open or closed.
ForgottenByRefusal ==
  \A a \in Accounts : wallet[a] # Nobody /\ wallet'[a] = Nobody => refreshing /\ request # request'

\* Does not hold of the code, see the findings.
\* "Tokens never survive an account switch" (accountstore.h:169).
TokensAreOfTheirAccount == TokensOf(account, access) /\ TokensOf(account, refreshTok)
=============================================================================
