----------------------------- MODULE OAuthLogin -----------------------------
(***************************************************************************)
(* Logging in with DataGSM (api/routes/oauth.py), on top of the accounts.  *)
(* A login is known by its state parameter: authorize stores it, callback  *)
(* takes it, awaits DataGSM twice and matches the account, and leaves a    *)
(* temporary code that exchange turns into a session.  The browser may     *)
(* send callback and exchange again at any time, and entries expire.       *)
(***************************************************************************)
EXTENDS Accounts

CONSTANTS
  Logins,      \* state parameters
  Callbacks,   \* calls of oauth_callback in flight at once
  StoreLimit   \* 1000 in the code

ASSUME OAuthAssumption == IsFiniteSet(Logins) /\ StoreLimit \in Nat

VARIABLES
  pkce,      \* _pkce_store: the role asked for and whether the entry expired
  tokens,    \* _token_store: for each login, the accounts codes wait for;
             \* one that has expired is refused like one that is not there
  calls,     \* the calls of oauth_callback that await DataGSM
  sessions,  \* the sessions each login has led to (history)
  started    \* the logins that were started (history)

oauth == <<pkce, tokens, calls, sessions, started>>
vars == <<accVars, oauth>>

Entry == [login: Logins, role: Roles, expired: BOOLEAN]
Token == [login: Logins, email: Emails, role: Roles]
NoCall == [pc |-> "none"]
Call == [pc: {"none"}] \cup [pc: {"awaiting"}, login: Logins, role: Roles]

OAuthTypeOK ==
  /\ TypeOK
  /\ pkce \subseteq Entry /\ Cardinality(pkce) <= StoreLimit + 1
  /\ tokens \subseteq Token
  /\ calls \in [Callbacks -> Call]
  /\ sessions \in [Logins -> Nat]
  /\ started \subseteq Logins

OAuthInit ==
  /\ Init
  /\ pkce = {} /\ tokens = {} /\ calls = [k \in Callbacks |-> NoCall]
  /\ sessions = [l \in Logins |-> 0] /\ started = {}

\* authorize cleans the store before it looks at its size.
HasSpace_OneMore(S) == Cardinality(S) <= StoreLimit + 1
HasSpace(S) == Cardinality(S) <= StoreLimit

Fresh(S) == {x \in S : ~x.expired}

Authorize(l, r) ==
  /\ l \notin started
  /\ \/ /\ HasSpace(Fresh(pkce))
        /\ pkce' = Fresh(pkce) \cup {[login |-> l, role |-> r, expired |-> FALSE]}
        /\ started' = started \cup {l}
     \/ /\ ~HasSpace(Fresh(pkce))
        /\ pkce' = Fresh(pkce)
        /\ UNCHANGED started
  /\ UNCHANGED <<accVars, tokens, calls, sessions>>

\* The entry is taken whether or not it has expired.
Popped_Kept(x) == pkce
Popped(x) == pkce \ {x}

CallbackBegin(k, x) ==
  /\ calls[k] = NoCall
  /\ pkce' = Popped(x)
  /\ calls' = [calls EXCEPT ![k] = IF x.expired THEN NoCall
                ELSE [pc |-> "awaiting", login |-> x.login, role |-> x.role]]
  /\ UNCHANGED <<accVars, tokens, sessions, started>>

\* The account of the role asked for; for users, the administrator who has no
\* user account, unless the address also has an owner's.
Match(e, r) ==
  IF acc[e][r].state # "none" THEN {r}
  ELSE IF /\ r = "user" /\ acc[e]["admin"].state # "none"
          /\ acc[e]["project_owner"].state = "none"
       THEN {"admin"} ELSE {}
Refused_Never(e, r) == FALSE
Refused(e, r) ==
  /\ Match(e, r) = {}
  /\ r # "user" \/ acc[e]["admin"].state # "none"

\* DataGSM has told the address: an account is matched or made, and if it is
\* active a temporary code waits for it; the call may fail as well.
GiveToken(l, e, a) == tokens' = tokens \cup
  {[login |-> l, email |-> e, role |-> a]}

CallbackMatched(k, e) ==
  LET l == calls[k].login r == calls[k].role IN
  /\ calls[k].pc = "awaiting"
  /\ \E a \in Match(e, r) :
       IF Active(e, a) THEN GiveToken(l, e, a) ELSE UNCHANGED tokens
  /\ calls' = [calls EXCEPT ![k] = NoCall]
  /\ UNCHANGED <<accVars, pkce, sessions, started>>

CallbackNewUser(k, e) ==
  LET l == calls[k].login r == calls[k].role IN
  /\ calls[k].pc = "awaiting"
  /\ Match(e, r) = {} /\ ~Refused(e, r)
  /\ SetAccount(e, r, [state |-> "active", pw |-> NoPassword, project |-> None,
                       origin |-> "oauth"])
  /\ GiveToken(l, e, r)
  /\ calls' = [calls EXCEPT ![k] = NoCall]
  /\ UNCHANGED <<codes, req, pkce, sessions, started>>

CallbackFailed(k) ==
  /\ calls[k].pc = "awaiting"
  /\ calls' = [calls EXCEPT ![k] = NoCall]
  /\ UNCHANGED <<accVars, pkce, tokens, sessions, started>>

Exchange(x) ==
  /\ tokens' = tokens \ {x}
  /\ sessions' = [sessions EXCEPT ![x.login] = @ + 1]
  /\ UNCHANGED <<accVars, pkce, calls, started>>

\* Five minutes for a state, one for a temporary code.
ExpireEntry(x) ==
  /\ ~x.expired
  /\ pkce' = (pkce \ {x}) \cup {[x EXCEPT !.expired = TRUE]}
  /\ UNCHANGED <<accVars, tokens, calls, sessions, started>>

ExpireToken(x) ==
  /\ tokens' = tokens \ {x}
  /\ UNCHANGED <<accVars, pkce, calls, sessions, started>>

CleanupStores ==
  /\ pkce' = Fresh(pkce)
  /\ UNCHANGED <<accVars, tokens, calls, sessions, started>>

OAuthNext ==
  \/ \E l \in Logins, r \in Roles : Authorize(l, r)
  \/ \E k \in Callbacks :
       \/ \E x \in pkce : CallbackBegin(k, x)
       \/ \E e \in Emails : CallbackMatched(k, e) \/ CallbackNewUser(k, e)
       \/ CallbackFailed(k)
  \/ \E x \in tokens : Exchange(x) \/ ExpireToken(x)
  \/ \E x \in pkce : ExpireEntry(x)
  \/ CleanupStores

Next ==
  \/ AccNext /\ UNCHANGED oauth
  \/ OAuthNext

Spec == OAuthInit /\ [][Next]_vars

-----------------------------------------------------------------------------
(* Properties.                                                              *)

\* A login leads to one session at most, although callback and exchange may
\* be called again, also while the first call awaits DataGSM.
OneSessionPerLogin == \A l \in Logins : sessions[l] <= 1

\* An account that DataGSM vouches for never gets a password: no code issued
\* before, for another account of the address, can be entered for it.
OAuthAccountsHaveNoPassword ==
  \A e \in Emails, r \in Roles : acc[e][r].origin = "oauth" => acc[e][r].pw = NoPassword
=============================================================================
