--------------------------- MODULE UserConnections ---------------------------
(***************************************************************************)
(* Accounts and their sessions (auth/authService.ts, auth/middleware.ts),  *)
(* the socket every signed-in tab opens (api/routes/realtimeRoute.ts) and *)
(* the gateway that hands a user's events to it (realtime/gateway.ts,      *)
(* events/eventBus.ts).  Passwords and tokens are left out: a request      *)
(* shows the session its token was signed for.                             *)
(***************************************************************************)
EXTENDS Integers, FiniteSets

CONSTANTS
  Emails,      \* an account each
  Requests,    \* registrations and logins at work at once
  Logins,      \* sessions that may be made
  Tabs,        \* sockets that may be opened
  NoEmail, NoLogin,
  OwnerOf,     \* a session -> the account it is of, where the database has them from before
  MaxEvents    \* bound on the events emitted

ASSUME ConnectionsAssumption ==
  NoEmail \notin Emails /\ NoLogin \notin Logins /\ MaxEvents \in Nat /\ OwnerOf \in [Logins -> Emails]

VARIABLES
  account,   \* email -> "none", "owner", "member"
  request,   \* request -> [pc, email, role]
  login,     \* session -> [email, state]: "free", "active", "over"
  tab,       \* socket -> [pc, login, open]: its handler, and whether it is connected
  connected, \* connectionsByUser: email -> sockets
  emitted,   \* the event being emitted: [email, number], and the sockets it was sent on
  registeredTogether,     \* ghost: two registrations were at work at once
  hasty      \* ghost: sockets that closed before their handler listened for it

connectionVars == <<account, request, login, tab, connected, emitted, registeredTogether, hasty>>

NotAtWork == [pc |-> "none", email |-> NoEmail, role |-> "none"]
Roles == {"none", "owner", "member"}

ConnectionsTypeOK ==
  /\ account \in [Emails -> Roles]
  /\ request \in [Requests -> [pc : {"none", "found", "counted", "session"}, email : Emails \union {NoEmail}, role : Roles]]
  /\ login \in [Logins -> [email : Emails \union {NoEmail}, state : {"free", "active", "over"}]]
  /\ tab \in [Tabs -> [pc : {"none", "checking", "checked", "serving", "refused"},
                         login : Logins \union {NoLogin}, open : BOOLEAN]]
  /\ connected \in [Emails -> SUBSET Tabs]
  /\ emitted \in [email : Emails \union {NoEmail}, number : 0..MaxEvents, sent : SUBSET Tabs]
  /\ registeredTogether \in BOOLEAN /\ hasty \subseteq Tabs

\* A new database, or one from before a restart, with everyone signed in.
ConnectionsInit ==
  /\ \/ /\ account = [e \in Emails |-> "none"]
        /\ login = [l \in Logins |-> [email |-> NoEmail, state |-> "free"]]
     \/ /\ \E first \in Emails : account = [e \in Emails |-> IF e = first THEN "owner" ELSE "member"]
        /\ login = [l \in Logins |-> [email |-> OwnerOf[l], state |-> "active"]]
  /\ request = [r \in Requests |-> NotAtWork]
  /\ tab = [p \in Tabs |-> [pc |-> "none", login |-> NoLogin, open |-> FALSE]]
  /\ connected = [e \in Emails |-> {}] /\ emitted = [email |-> NoEmail, number |-> 0, sent |-> {}]
  /\ registeredTogether = FALSE /\ hasty = {}

-----------------------------------------------------------------------------
(* Accounts and sessions *)

Registering(r) == request[r].pc \in {"found", "counted"}

\* registerUser finds no account under the address (or is refused, which changes nothing).
Registers(r, e) ==
  /\ request[r].pc = "none" /\ account[e] = "none"
  /\ request' = [request EXCEPT ![r] = [pc |-> "found", email |-> e, role |-> "none"]]
  /\ registeredTogether' = (registeredTogether \/ \E q \in Requests : Registering(q))
  /\ UNCHANGED <<account, login, tab, connected, emitted, hasty>>

RoleGiven_OwnerAlways == "owner"
\* Who comes first owns the deployment.
RoleGiven == IF \A e \in Emails : account[e] = "none" THEN "owner" ELSE "member"

\* The password hashed, the accounts counted.
Counts(r) ==
  /\ request[r].pc = "found"
  /\ request' = [request EXCEPT ![r].pc = "counted", ![r].role = RoleGiven]
  /\ UNCHANGED <<account, login, tab, connected, emitted, registeredTogether, hasty>>

\* The row is made; the address is unique, and the slower of two under one is refused.
AccountMade(r) ==
  /\ request[r].pc = "counted"
  /\ IF account[request[r].email] = "none"
       THEN /\ account' = [account EXCEPT ![request[r].email] = request[r].role]
            /\ request' = [request EXCEPT ![r].pc = "session"]
       ELSE /\ request' = [request EXCEPT ![r] = NotAtWork]
            /\ UNCHANGED account
  /\ UNCHANGED <<login, tab, connected, emitted, registeredTogether, hasty>>

\* loginUser with the right password.
LogsIn(r, e) ==
  /\ request[r].pc = "none" /\ account[e] # "none"
  /\ request' = [request EXCEPT ![r] = [pc |-> "session", email |-> e, role |-> account[e]]]
  /\ UNCHANGED <<account, login, tab, connected, emitted, registeredTogether, hasty>>

\* createSession: the row, and the token signed for it.
SessionMade(r, l) ==
  /\ request[r].pc = "session" /\ login[l].state = "free"
  /\ login' = [login EXCEPT ![l] = [email |-> request[r].email, state |-> "active"]]
  /\ request' = [request EXCEPT ![r] = NotAtWork]
  /\ UNCHANGED <<account, tab, connected, emitted, registeredTogether, hasty>>

\* A logout, let in by requireAuth, revokes; or the session expires.  Its sockets stay.
SessionEnds(l) ==
  /\ login[l].state = "active"
  /\ login' = [login EXCEPT ![l].state = "over"]
  /\ UNCHANGED <<account, request, tab, connected, emitted, registeredTogether, hasty>>

-----------------------------------------------------------------------------
(* Sockets *)

TabOpens(p, l) ==
  /\ tab[p].pc = "none" /\ login[l].state # "free"
  /\ tab' = [tab EXCEPT ![p] = [pc |-> "checking", login |-> l, open |-> TRUE]]
  /\ UNCHANGED <<account, request, login, connected, emitted, registeredTogether, hasty>>

\* isSessionActive.
TabChecked(p) ==
  /\ tab[p].pc = "checking"
  /\ tab' = IF login[tab[p].login].state = "active" THEN [tab EXCEPT ![p].pc = "checked"]
             ELSE [tab EXCEPT ![p].pc = "refused", ![p].open = FALSE]
  /\ UNCHANGED <<account, request, login, connected, emitted, registeredTogether, hasty>>

\* register, once the answer is back, connected or not by then.
TabRegistered(p) ==
  /\ tab[p].pc = "checked"
  /\ tab' = [tab EXCEPT ![p].pc = "serving"]
  /\ connected' = [connected EXCEPT ![login[tab[p].login].email] = @ \union {p}]
  /\ UNCHANGED <<account, request, login, emitted, registeredTogether, hasty>>

Unregistered_Never(p) == connected
\* The close handler of register.
Unregistered(p) == [connected EXCEPT ![login[tab[p].login].email] = @ \ {p}]

TabCloses(p) ==
  /\ tab[p].open
  /\ tab' = [tab EXCEPT ![p].open = FALSE]
  /\ IF tab[p].pc = "serving"
       THEN connected' = Unregistered(p) /\ UNCHANGED hasty
       ELSE hasty' = hasty \union {p} /\ UNCHANGED connected
  /\ UNCHANGED <<account, request, login, emitted, registeredTogether>>

-----------------------------------------------------------------------------
(* Events *)

Receivers_All(e) == {p \in UNION {connected[u] : u \in Emails} : tab[p].open}
\* broadcastToUser, by way of emitEvent: the sockets of the event's user that are open.
Receivers(e) == {p \in connected[e] : tab[p].open}

Emits(e) ==
  /\ emitted.number < MaxEvents /\ account[e] # "none"
  /\ emitted' = [email |-> e, number |-> emitted.number + 1, sent |-> Receivers(e)]
  /\ UNCHANGED <<account, request, login, tab, connected, registeredTogether, hasty>>

AccountsNext ==
  \E r \in Requests :
    \/ Counts(r) \/ AccountMade(r)
    \/ \E e \in Emails : Registers(r, e) \/ LogsIn(r, e)
    \/ \E l \in Logins : SessionMade(r, l)

TabsNext ==
  \/ \E l \in Logins : SessionEnds(l) \/ \E p \in Tabs : TabOpens(p, l)
  \/ \E p \in Tabs : TabChecked(p) \/ TabRegistered(p) \/ TabCloses(p)
  \/ \E e \in Emails : Emits(e)

ConnectionsSpec == ConnectionsInit /\ [][AccountsNext \/ TabsNext]_connectionVars

-----------------------------------------------------------------------------
(* Properties *)

\* "First registered user becomes the owner": one of the accounts there are, unless two
\* registered at once.  An event reaches only tabs signed in as its user, and all of
\* them that serve; what is registered is open, unless it closed while its session was
\* looked up.
ConnectionsConsistent ==
  /\ (~registeredTogether /\ \E e \in Emails : account[e] # "none")
       => Cardinality({e \in Emails : account[e] = "owner"}) = 1
  /\ \A p \in emitted.sent : login[tab[p].login].email = emitted.email
  /\ \A e \in Emails, p \in Tabs :
       /\ p \in connected[e] => tab[p].pc = "serving" /\ login[tab[p].login].email = e
       /\ p \in connected[e] /\ p \notin hasty => tab[p].open
       /\ tab[p].pc = "serving" /\ tab[p].open /\ login[tab[p].login].email = e => p \in connected[e]
=============================================================================
