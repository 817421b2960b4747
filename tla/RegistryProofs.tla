--------------------------- MODULE RegistryProofs ---------------------------
(***************************************************************************)
(* Theorems about what the process keeps beside the database and the       *)
(* machine: the sockets of the accounts' tabs (UserConnections), the facts *)
(* remembered under a key (RememberedFacts), the activation mode in force  *)
(* (ActivationSettings) and the list of installed applications             *)
(* (AppLauncher), for any sets of each, of requests and of callers; and    *)
(* about what of a store of memories comes into a conversation             *)
(* (MemoryRetrieval).                                                      *)
(***************************************************************************)
EXTENDS UserConnections, RememberedFacts, ActivationSettings, AppLauncher, MemoryRetrieval,
        SelectionProofs, FiniteSetTheorems, TLAPS

-----------------------------------------------------------------------------
(* Accounts and tabs *)

ConnectionsShape ==
  /\ account \in [Emails -> Roles]
  /\ request \in [Requests -> [pc : {"none", "found", "counted", "session"}, email : Emails \union {NoEmail}, role : Roles]]
  /\ login \in [Logins -> [email : Emails \union {NoEmail}, state : {"free", "active", "over"}]]
  /\ tab \in [Tabs -> [pc : {"none", "checking", "checked", "serving", "refused"},
                       login : Logins \union {NoLogin}, open : BOOLEAN]]
  /\ connected \in [Emails -> SUBSET Tabs]
  /\ \A r \in Requests : request[r].pc # "none" => request[r].email \in Emails
  /\ \A l \in Logins : login[l].state # "free" => login[l].email \in Emails
  /\ \A p \in Tabs : tab[p].pc # "none" => tab[p].login \in Logins /\ login[tab[p].login].state # "free"

Owners == {e \in Emails : account[e] = "owner"}
NoAccounts == \A e \in Emails : account[e] = "none"

\* While registrations come one at a time, the one at work still has the role it would be
\* given now, and the accounts there are have one owner.
OneOwner ==
  registeredTogether \/
    /\ \A q, r \in Requests : Registering(q) /\ Registering(r) => q = r
    /\ \A r \in Requests : request[r].pc = "counted" => request[r].role = RoleGiven
    /\ ~NoAccounts => \E e \in Emails : \A d \in Emails : account[d] = "owner" <=> d = e

\* A socket that waits for its check, or serves, is open or closed before it could be heard.
Registered ==
  /\ \A p \in Tabs : tab[p].pc \in {"checking", "checked"} => tab[p].open \/ p \in hasty
  /\ \A e \in Emails, p \in Tabs :
       /\ p \in connected[e] => tab[p].pc = "serving" /\ login[tab[p].login].email = e
       /\ p \in connected[e] /\ p \notin hasty => tab[p].open
       /\ tab[p].pc = "serving" /\ tab[p].open /\ login[tab[p].login].email = e => p \in connected[e]

SentToOwn ==
  emitted.sent \subseteq Tabs
    /\ \A p \in emitted.sent : tab[p].pc = "serving" /\ login[tab[p].login].email = emitted.email

Connections == ConnectionsShape /\ OneOwner /\ Registered /\ SentToOwn

LEMMA AccountsStep == ASSUME Connections, AccountsNext PROVE Connections'
<1> USE DEF Connections, ConnectionsShape
<1> SUFFICES ASSUME NEW r \in Requests,
                    \/ Counts(r) \/ AccountMade(r)
                    \/ \E e \in Emails : Registers(r, e) \/ LogsIn(r, e)
                    \/ \E l \in Logins : SessionMade(r, l)
             PROVE  Connections'
  BY DEF AccountsNext
<1>1. CASE Counts(r)
  <2>1. request' = [request EXCEPT ![r].pc = "counted", ![r].role = RoleGiven] /\ request[r].pc = "found"
        /\ UNCHANGED <<account, login, tab, connected, emitted, registeredTogether, hasty>>
    BY <1>1 DEF Counts
  <2>2. RoleGiven \in Roles
    BY DEF RoleGiven, Roles
  <2>3. ConnectionsShape'
    <3>1. /\ request'[r] = [pc |-> "counted", email |-> request[r].email, role |-> RoleGiven]
          /\ \A q \in Requests : q # r => request'[q] = request[q]
          /\ request[r].email \in Emails /\ DOMAIN request' = Requests
      BY <2>1
    <3> QED
      BY <2>1, <2>2, <3>1
  <2>4. OneOwner'
    BY <2>1, <2>2 DEF OneOwner, Registering, RoleGiven, NoAccounts
  <2> QED
    BY <2>1, <2>3, <2>4 DEF Registered, SentToOwn
<1>2. CASE AccountMade(r) /\ account[request[r].email] = "none"
  <2>1. /\ request[r].pc = "counted" /\ request' = [request EXCEPT ![r].pc = "session"]
        /\ account' = [account EXCEPT ![request[r].email] = request[r].role]
        /\ UNCHANGED <<login, tab, connected, emitted, registeredTogether, hasty>>
    BY <1>2 DEF AccountMade
  <2>2. ConnectionsShape'
    BY <2>1
  <2>3. ASSUME ~registeredTogether
        PROVE  \E e \in Emails : \A d \in Emails : account'[d] = "owner" <=> d = e
    <3>1. request[r].role = RoleGiven /\ request[r].email \in Emails
      BY <2>1, <2>3 DEF OneOwner
    <3>2. CASE NoAccounts
      BY <2>1, <3>1, <3>2 DEF NoAccounts, RoleGiven
    <3>3. CASE ~NoAccounts
      <4>1. request[r].role = "member"
        BY <3>1, <3>3 DEF NoAccounts, RoleGiven
      <4>2. PICK e \in Emails : \A d \in Emails : account[d] = "owner" <=> d = e
        BY <2>3, <3>3 DEF OneOwner
      <4> QED
        BY <1>2, <2>1, <3>1, <4>1, <4>2
    <3> QED
      BY <3>2, <3>3
  <2>4. OneOwner'
    BY <2>1, <2>3 DEF OneOwner, Registering
  <2> QED
    BY <2>1, <2>2, <2>4 DEF Registered, SentToOwn
<1>3. CASE (AccountMade(r) /\ account[request[r].email] # "none") \/ \E l \in Logins : SessionMade(r, l)
  <2>1. request' = [request EXCEPT ![r] = NotAtWork]
        /\ UNCHANGED <<account, tab, connected, emitted, registeredTogether, hasty>>
    BY <1>3 DEF AccountMade, SessionMade
  <2>2. /\ login' \in [Logins -> [email : Emails \union {NoEmail}, state : {"free", "active", "over"}]]
        /\ \A l \in Logins : login[l].state # "free" => login'[l] = login[l]
        /\ \A l \in Logins : login'[l].state # "free" => login'[l].email \in Emails
    BY <1>3 DEF AccountMade, SessionMade
  <2>3. ConnectionsShape'
    BY <2>1, <2>2 DEF NotAtWork, Roles
  <2>4. OneOwner'
    BY <2>1 DEF OneOwner, Registering, RoleGiven, NoAccounts, NotAtWork
  <2>5. \A p \in Tabs : tab[p].pc # "none" => login'[tab[p].login] = login[tab[p].login]
    BY <2>2
  <2> QED
    BY <2>1, <2>3, <2>4, <2>5 DEF Registered, SentToOwn
<1>4. ASSUME NEW e \in Emails, Registers(r, e) PROVE Connections'
  <2>1. /\ request' = [request EXCEPT ![r] = [pc |-> "found", email |-> e, role |-> "none"]]
        /\ registeredTogether' = (registeredTogether \/ \E q \in Requests : Registering(q))
        /\ UNCHANGED <<account, login, tab, connected, emitted, hasty>>
    BY <1>4 DEF Registers
  <2>2. ConnectionsShape'
    BY <2>1 DEF Roles
  <2>3. OneOwner'
    BY ZenonT(60), <2>1 DEF OneOwner, Registering, RoleGiven, NoAccounts
  <2> QED
    BY <2>1, <2>2, <2>3 DEF Registered, SentToOwn
<1>5. ASSUME NEW e \in Emails, LogsIn(r, e) PROVE Connections'
  <2>1. /\ request' = [request EXCEPT ![r] = [pc |-> "session", email |-> e, role |-> account[e]]]
        /\ UNCHANGED <<account, login, tab, connected, emitted, registeredTogether, hasty>>
    BY <1>5 DEF LogsIn
  <2>2. ConnectionsShape'
    BY <2>1
  <2>3. OneOwner'
    BY <2>1 DEF OneOwner, Registering, RoleGiven, NoAccounts
  <2> QED
    BY <2>1, <2>2, <2>3 DEF Registered, SentToOwn
<1> QED
  BY <1>1, <1>2, <1>3, <1>4, <1>5

LEMMA TabsStep == ASSUME Connections, TabsNext PROVE Connections'
<1> USE DEF Connections, ConnectionsShape
<1>1. OneOwner'
  <2>1. UNCHANGED <<account, request, registeredTogether>>
    BY DEF TabsNext, SessionEnds, TabOpens, TabChecked, TabRegistered, TabCloses, Emits
  <2> QED
    BY <2>1 DEF OneOwner, Registering, RoleGiven, NoAccounts
<1>2. ASSUME NEW l \in Logins, SessionEnds(l) PROVE ConnectionsShape' /\ Registered' /\ SentToOwn'
  <2>1. /\ login' = [login EXCEPT ![l].state = "over"] /\ login[l].state = "active"
        /\ UNCHANGED <<account, request, tab, connected, emitted, hasty>>
    BY <1>2 DEF SessionEnds
  <2>2. \A k \in Logins : login'[k].email = login[k].email
    BY <2>1
  <2>3. \A p \in Tabs : tab[p].pc # "none" => login'[tab[p].login].email = login[tab[p].login].email
    BY <2>2
  <2> QED
    BY <2>1, <2>3 DEF Registered, SentToOwn
<1>3. ASSUME NEW l \in Logins, NEW p \in Tabs, TabOpens(p, l)
      PROVE  ConnectionsShape' /\ Registered' /\ SentToOwn'
  BY <1>3 DEF TabOpens, Registered, SentToOwn
<1>4. ASSUME NEW p \in Tabs, TabChecked(p) PROVE ConnectionsShape' /\ Registered' /\ SentToOwn'
  <2>1. /\ tab[p].pc = "checking" /\ DOMAIN tab' = Tabs /\ tab'[p].login = tab[p].login
        /\ tab'[p] \in [pc : {"checked", "refused"}, login : Logins \union {NoLogin}, open : BOOLEAN]
        /\ tab'[p].pc = "checked" => tab'[p].open = tab[p].open
        /\ \A q \in Tabs : q # p => tab'[q] = tab[q]
        /\ UNCHANGED <<account, request, login, connected, emitted, hasty>>
    BY <1>4 DEF TabChecked
  <2>2. tab'[p] \in [pc : {"none", "checking", "checked", "serving", "refused"},
                      login : Logins \union {NoLogin}, open : BOOLEAN]
    BY <2>1
  <2>3. ConnectionsShape'
    BY <2>1, <2>2, <1>4 DEF TabChecked
  <2>4. Registered'
    BY SMTT(30), <2>1 DEF Registered
  <2> QED
    BY <2>1, <2>3, <2>4 DEF SentToOwn
<1>5. ASSUME NEW p \in Tabs, TabRegistered(p) PROVE ConnectionsShape' /\ Registered' /\ SentToOwn'
  BY SMTT(30), <1>5 DEF TabRegistered, Registered, SentToOwn
<1>6. ASSUME NEW p \in Tabs, TabCloses(p) PROVE ConnectionsShape' /\ Registered' /\ SentToOwn'
  <2>1. /\ DOMAIN tab' = Tabs /\ tab'[p] = [pc |-> tab[p].pc, login |-> tab[p].login, open |-> FALSE]
        /\ \A q \in Tabs : q # p => tab'[q] = tab[q]
        /\ UNCHANGED <<account, request, login, emitted>> /\ tab[p].open
    BY <1>6 DEF TabCloses
  <2>2. /\ connected' \in [Emails -> SUBSET Tabs] /\ hasty \subseteq hasty'
        /\ tab[p].pc # "serving" => p \in hasty' /\ connected' = connected
        /\ tab[p].pc = "serving" => login[tab[p].login].email \in Emails
                                   /\ connected' = Unregistered(p)
    BY <1>6 DEF TabCloses, Unregistered
  <2>3. \A q \in Tabs : tab'[q].pc = tab[q].pc /\ tab'[q].login = tab[q].login
    BY <2>1
  <2>4. ConnectionsShape'
    <3>1. tab' \in [Tabs -> [pc : {"none", "checking", "checked", "serving", "refused"},
                             login : Logins \union {NoLogin}, open : BOOLEAN]]
      BY <1>6 DEF TabCloses
    <3> QED
      BY <2>1, <2>2, <2>3, <3>1
  <2>5. Registered'
    BY SMTT(30), <2>1, <2>2, <2>3 DEF Registered, Unregistered
  <2> QED
    BY <2>1, <2>3, <2>4, <2>5 DEF SentToOwn
<1>7. ASSUME NEW e \in Emails, Emits(e) PROVE ConnectionsShape' /\ Registered' /\ SentToOwn'
  BY <1>7 DEF Emits, Receivers, Registered, SentToOwn
<1> QED
  BY <1>1, <1>2, <1>3, <1>4, <1>5, <1>6, <1>7 DEF TabsNext

\* While registrations come one at a time the accounts have exactly one owner; an event is
\* sent on its user's sockets only; what is registered is open and its user's, and every
\* open socket that serves is registered (authService.ts, realtimeRoute.ts, gateway.ts).
THEOREM ConnectionsAreConsistent == ConnectionsSpec => []ConnectionsConsistent
<1>1. ConnectionsInit => Connections
  BY ConnectionsAssumption DEF ConnectionsInit, Connections, ConnectionsShape, OneOwner, Registered, SentToOwn,
     Registering, RoleGiven, NoAccounts, NotAtWork, Roles
<1>2. Connections /\ UNCHANGED connectionVars => Connections'
  BY DEF connectionVars, Connections, ConnectionsShape, OneOwner, Registered, SentToOwn,
         Registering, RoleGiven, NoAccounts
<1>3. Connections => ConnectionsConsistent
  <2> SUFFICES ASSUME Connections PROVE ConnectionsConsistent
    OBVIOUS
  <2>1. ASSUME ~registeredTogether, \E e \in Emails : account[e] # "none" PROVE Cardinality(Owners) = 1
    <3>1. PICK e \in Emails : \A d \in Emails : account[d] = "owner" <=> d = e
      BY <2>1 DEF Connections, OneOwner, NoAccounts
    <3>2. Owners = {e}
      BY <3>1 DEF Owners
    <3> QED
      BY <3>2, FS_Singleton
  <2> QED
    BY <2>1 DEF ConnectionsConsistent, Owners, Connections, Registered, SentToOwn
<1> QED
  BY <1>1, <1>2, <1>3, AccountsStep, TabsStep, PTL DEF ConnectionsSpec

-----------------------------------------------------------------------------
(* Remembered facts *)

Remembering(r) == calls[r] # NoCallYet
HasRow(k, i) == item[i].state = "enabled" /\ item[i].key = k

FactsShape ==
  /\ item \in [Items -> [state : {"free", "enabled", "disabled", "deleted"}, key : FactKeys \union {"none"},
                         fact : Facts \union {"none"}]]
  /\ calls \in [Rememberers -> [key : FactKeys \union {"none"}, fact : Facts \union {"none"},
                                existing : Items \union {NoItem}]]
  /\ told \in [FactKeys -> Facts \union {"none"}]
  /\ \A r \in Rememberers : Remembering(r) =>
       /\ calls[r].key \in FactKeys /\ calls[r].fact \in Facts
       /\ calls[r].existing # NoItem =>
            item[calls[r].existing].key = calls[r].key /\ item[calls[r].existing].state # "free"

\* A key used the way the tool means it has one row, which says what was told last and was
\* never switched off,
OneRow ==
  \A k \in FactKeys \ doubled : \A i \in Items :
    /\ HasRow(k, i) => item[i].fact = told[k] /\ \A j \in Items : HasRow(k, j) => i = j
    /\ item[i].key = k => item[i].state # "disabled"

\* and one call that is about to write, which knows the row.
OneCall ==
  \A k \in FactKeys \ doubled : \A r \in Rememberers : Remembering(r) /\ calls[r].key = k =>
    /\ \A q \in Rememberers : Remembering(q) /\ calls[q].key = k => q = r
    /\ \A i \in Items : HasRow(k, i) => i = calls[r].existing

Remembered == FactsShape /\ OneRow /\ OneCall

LEMMA FreeRows == ASSUME NEW i \in Free PROVE i \in Items /\ item[i].state = "free"
  BY DEF Free

LEMMA FactsStep == ASSUME Remembered, FactsNext PROVE Remembered'
<1> USE FactsAssumption DEF Remembered, FactsShape
<1>1. ASSUME NEW r \in Rememberers, Finds(r) PROVE Remembered'
  <2>0. PICK k \in FactKeys, f \in Facts :
          /\ \E i \in (IF Enabled(k) = {} THEN {NoItem} ELSE Enabled(k)) :
               calls' = [calls EXCEPT ![r] = [key |-> k, fact |-> f, existing |-> i]]
          /\ doubled' = IF \E q \in Rememberers : calls[q].key = k THEN doubled \union {k} ELSE doubled
    BY <1>1 DEF Finds
  <2>1. PICK i \in (IF Enabled(k) = {} THEN {NoItem} ELSE Enabled(k)) :
          calls' = [calls EXCEPT ![r] = [key |-> k, fact |-> f, existing |-> i]]
    BY <2>0
  <2>2. calls[r] = NoCallYet /\ UNCHANGED <<item, told>>
    BY <1>1 DEF Finds
  <2>3. i # NoItem => i \in Items /\ HasRow(k, i)
    BY DEF Enabled, HasRow
  <2>4. i = NoItem => \A j \in Items : ~HasRow(k, j)
    BY DEF Enabled, HasRow
  <2>5. /\ calls'[r] = [key |-> k, fact |-> f, existing |-> i] /\ doubled \subseteq doubled'
        /\ \A q \in Rememberers : q # r => calls'[q] = calls[q]
        /\ k \notin doubled' => \A q \in Rememberers : calls[q].key # k
    BY <2>0, <2>1
  <2>6. FactsShape'
    BY <2>1, <2>2, <2>3, <2>5 DEF Remembering, NoCallYet, HasRow
  <2>7. OneRow'
    BY <2>2, <2>5 DEF OneRow, HasRow
  <2>8. ASSUME NEW d \in FactKeys \ doubled', NEW s \in Rememberers, Remembering(s)', calls'[s].key = d
        PROVE  /\ \A q \in Rememberers : Remembering(q)' /\ calls'[q].key = d => q = s
               /\ \A j \in Items : HasRow(d, j)' => j = calls'[s].existing
    <3>1. CASE s = r
      BY <2>2, <2>3, <2>4, <2>5, <2>8, <3>1 DEF OneRow, HasRow, Remembering
    <3>2. CASE s # r
      BY SMTT(30), <2>2, <2>5, <2>8, <3>2 DEF OneCall, HasRow, Remembering
    <3> QED
      BY <3>1, <3>2
  <2>9. OneCall'
    BY <2>8 DEF OneCall
  <2> QED
    BY <2>6, <2>7, <2>9
<1>2. ASSUME NEW r \in Rememberers, Remembers(r) PROVE Remembered'
  <2>1. /\ Remembering(r) /\ calls' = [calls EXCEPT ![r] = NoCallYet]
        /\ told' = [told EXCEPT ![calls[r].key] = calls[r].fact] /\ doubled' = doubled
        /\ item' \in Written(calls[r])
        /\ calls[r].existing # NoItem => item[calls[r].existing].state # "deleted"
    BY <1>2 DEF Remembers, Remembering
  <2>2. PICK k \in FactKeys, f \in Facts : calls[r].key = k /\ calls[r].fact = f
    BY <2>1
  <2>3. PICK i \in Items :
          /\ \A j \in Items : j # i => item'[j] = item[j]
          /\ item'[i].key = k /\ item'[i].fact = f
          /\ calls[r].existing = NoItem => item'[i].state = "enabled" /\ item[i].state = "free"
          /\ calls[r].existing # NoItem => i = calls[r].existing /\ item'[i].state = item[i].state
                                         /\ item[i].key = k /\ item[i].state # "free"
          /\ item' \in [Items -> [state : {"free", "enabled", "disabled", "deleted"},
                                  key : FactKeys \union {"none"}, fact : Facts \union {"none"}]]
    <3>1. CASE calls[r].existing = NoItem
      <4>1. PICK i \in Free : item' = [item EXCEPT ![i] = Row(k, f)]
        BY <2>1, <2>2, <3>1 DEF Written
      <4> QED
        BY <3>1, <4>1, FreeRows DEF Row
    <3>2. CASE calls[r].existing # NoItem
      <4>1. PICK i \in Items : i = calls[r].existing
        BY <3>2
      <4>2. item' = [item EXCEPT ![i].fact = f]
        BY <2>1, <2>2, <3>2, <4>1 DEF Written
      <4>3. item[i].key = k /\ item[i].state # "free"
        BY <2>1, <2>2, <3>2, <4>1
      <4> QED
        BY <3>2, <4>1, <4>2, <4>3
    <3> QED
      BY <3>1, <3>2
  <2>4. \A q \in Rememberers : Remembering(q)' => q # r /\ Remembering(q) /\ calls'[q] = calls[q]
    BY <2>1 DEF Remembering
  <2>5. FactsShape'
    <3>1. calls' \in [Rememberers -> [key : FactKeys \union {"none"}, fact : Facts \union {"none"},
                                      existing : Items \union {NoItem}]]
      BY <2>1 DEF NoCallYet
    <3>2. told' \in [FactKeys -> Facts \union {"none"}]
      BY <2>1, <2>2
    <3>3. ASSUME NEW q \in Rememberers, Remembering(q)', calls'[q].existing # NoItem
          PROVE  item'[calls'[q].existing].key = calls'[q].key /\ item'[calls'[q].existing].state # "free"
      <4>1. Remembering(q) /\ calls'[q] = calls[q]
        BY <2>4, <3>3
      <4>2. /\ calls[q].existing \in Items /\ item[calls[q].existing].key = calls[q].key
            /\ item[calls[q].existing].state # "free"
        BY <3>3, <4>1
      <4>3. CASE calls[q].existing = i
        BY <2>3, <4>1, <4>2, <4>3
      <4>4. CASE calls[q].existing # i
        BY <2>3, <4>1, <4>2, <4>4
      <4> QED
        BY <4>3, <4>4
    <3> QED
      BY <2>3, <2>4, <3>1, <3>2, <3>3
  <2>6. ASSUME k \notin doubled, NEW j \in Items, j # i PROVE ~HasRow(k, j)'
    BY <2>1, <2>2, <2>3, <2>6 DEF OneCall, HasRow
  <2>7. OneRow'
    <3>1. ASSUME NEW d \in FactKeys \ doubled, NEW j \in Items
          PROVE  /\ HasRow(d, j)' => item'[j].fact = told'[d] /\ \A m \in Items : HasRow(d, m)' => j = m
                 /\ item'[j].key = d => item'[j].state # "disabled"
      <4>1. CASE d = k
        BY <2>1, <2>2, <2>3, <2>6, <4>1 DEF OneRow, HasRow
      <4>2. CASE d # k
        <5>1. told'[d] = told[d]
          BY <2>1, <2>2, <4>2
        <5>2. \A m \in Items : item'[m].key = d => item'[m] = item[m]
          BY <2>3, <4>2
        <5> QED
          BY <5>1, <5>2 DEF OneRow, HasRow
      <4> QED
        BY <4>1, <4>2
    <3> QED
      BY <2>1, <3>1 DEF OneRow
  <2>8. OneCall'
    <3>1. ASSUME NEW d \in FactKeys \ doubled, NEW s \in Rememberers, Remembering(s)', calls'[s].key = d
          PROVE  /\ \A q \in Rememberers : Remembering(q)' /\ calls'[q].key = d => q = s
                 /\ \A j \in Items : HasRow(d, j)' => j = calls'[s].existing
      <4>1. d # k
        BY <2>1, <2>2, <2>4, <3>1 DEF OneCall
      <4> QED
        BY <2>3, <2>4, <3>1, <4>1 DEF OneCall, HasRow
    <3> QED
      BY <2>1, <3>1 DEF OneCall
  <2> QED
    BY <2>5, <2>7, <2>8
<1>3. ASSUME NEW r \in Rememberers, RememberFails(r) PROVE Remembered'
  BY <1>3 DEF RememberFails, Remembering, NoCallYet, OneRow, OneCall, HasRow
<1>4. ASSUME NEW k \in FactKeys, NEW f \in Facts, Creates(k, f) PROVE Remembered'
  <2>1. PICK i \in Free : item' = [item EXCEPT ![i] = Row(k, f)]
    BY <1>4 DEF Creates
  <2>2. i \in Items /\ item[i].state = "free" /\ item'[i] = Row(k, f)
        /\ \A j \in Items : j # i => item'[j] = item[j]
    BY <2>1, FreeRows
  <2>3. /\ told' = [told EXCEPT ![k] = f] /\ calls' = calls /\ doubled \subseteq doubled'
        /\ k \notin doubled' => /\ \A j \in Items : ~HasRow(k, j)
                                /\ \A r \in Rememberers : calls[r].key # k
    BY <1>4 DEF Creates, Enabled, HasRow
  <2>4. FactsShape'
    BY <2>1, <2>2, <2>3 DEF Remembering, Row
  <2>5. OneRow' /\ OneCall'
    BY SMTT(30), <2>2, <2>3 DEF OneRow, OneCall, HasRow, Remembering, Row
  <2> QED
    BY <2>4, <2>5
<1>5. ASSUME NEW i \in Items, Toggles(i) PROVE Remembered'
  <2>1. /\ \A j \in Items : item'[j].key = item[j].key /\ item'[j].fact = item[j].fact
        /\ \A j \in Items : j # i => item'[j] = item[j]
        /\ item[i].state # "free" /\ item'[i].state # "free"
        /\ item' \in [Items -> [state : {"free", "enabled", "disabled", "deleted"},
                                key : FactKeys \union {"none"}, fact : Facts \union {"none"}]]
        /\ doubled' = doubled \union {item[i].key} /\ UNCHANGED <<calls, told>>
    BY <1>5 DEF Toggles
  <2>2. FactsShape'
    BY <2>1 DEF Remembering
  <2>3. OneRow' /\ OneCall'
    BY SMTT(30), <2>1 DEF OneRow, OneCall, HasRow, Remembering
  <2> QED
    BY <2>2, <2>3
<1>6. ASSUME NEW i \in Items, Deletes(i) PROVE Remembered'
  <2>1. /\ item' = [item EXCEPT ![i].state = "deleted"] /\ item[i].state \in {"enabled", "disabled"}
        /\ told' = IF item[i].state = "enabled" THEN [told EXCEPT ![item[i].key] = "none"] ELSE told
        /\ UNCHANGED <<calls, doubled>>
    BY <1>6 DEF Deletes
  <2>2. /\ \A j \in Items : item'[j].key = item[j].key /\ item'[j].fact = item[j].fact
        /\ \A j \in Items : j # i => item'[j] = item[j]
        /\ item'[i].state = "deleted"
    BY <2>1
  <2>3. FactsShape'
    <3>1. item' \in [Items -> [state : {"free", "enabled", "disabled", "deleted"},
                               key : FactKeys \union {"none"}, fact : Facts \union {"none"}]]
      BY <2>1
    <3>2. told' \in [FactKeys -> Facts \union {"none"}]
      BY <2>1
    <3>3. \A j \in Items : item[j].state # "free" => item'[j].state # "free"
      BY <2>2
    <3> QED
      BY <2>1, <2>2, <3>1, <3>2, <3>3 DEF Remembering
  <2>4. OneRow'
    BY <2>1, <2>2 DEF OneRow, HasRow
  <2>5. OneCall'
    BY <2>1, <2>2 DEF OneCall, HasRow, Remembering
  <2> QED
    BY <2>3, <2>4, <2>5
<1> QED
  BY <1>1, <1>2, <1>3, <1>4, <1>5, <1>6 DEF FactsNext

\* memoryService.ts "replaces that memory instead of leaving two contradictory ones": a key
\* not used by two calls at once, by the route beside a row, or switched off and on, has one
\* row at most, which says what was told last; for any number of keys, rows and callers.
THEOREM OneFactIsKept == FactsSpec => []OneFactPerKey
<1>1. FactsInit => Remembered
  BY FactsAssumption DEF FactsInit, Remembered, FactsShape, OneRow, OneCall, HasRow, Remembering, NoCallYet
<1>2. Remembered /\ UNCHANGED factVars => Remembered'
  BY DEF factVars, Remembered, FactsShape, OneRow, OneCall, HasRow, Remembering
<1>3. Remembered => OneFactPerKey
  <2> SUFFICES ASSUME Remembered, NEW k \in FactKeys \ doubled
               PROVE  Cardinality(Enabled(k)) <= 1 /\ \A i \in Enabled(k) : item[i].fact = told[k]
    BY DEF OneFactPerKey
  <2>1. \A i \in Enabled(k) : Enabled(k) = {i} /\ item[i].fact = told[k]
    BY DEF Remembered, OneRow, Enabled, HasRow
  <2>2. CASE Enabled(k) = {}
    BY <2>2, FS_EmptySet
  <2>3. CASE Enabled(k) # {}
    BY <2>1, <2>3, FS_Singleton
  <2> QED
    BY <2>1, <2>2, <2>3
<1> QED
  BY <1>1, <1>2, <1>3, FactsStep, PTL DEF FactsSpec

-----------------------------------------------------------------------------
(* The activation mode *)

Stored == [mode : Modes, rest : Rest \union {0}]
Gates == [phase : {"off", "reading", "on"}, seen : Modes \union {"none"}, mode : Modes \union {"none"},
          open : BOOLEAN, fresh : BOOLEAN]

ActivationShape ==
  /\ stored \in Stored /\ live \in Modes /\ hydrated \in BOOLEAN /\ raced \in BOOLEAN
  /\ patch \in [Patches -> [phase : {"idle", "read", "written"}, of : {"none", "mode", "rest"}, row : Stored]]
  /\ loading \in [Sockets -> Modes \union {"none"}]
  /\ gates \in [Voices -> Gates]
  /\ \A v \in Voices : gates[v].phase = "reading" => gates[v].seen \in Modes
  /\ \A p \in Patches : patch[p].phase # "idle" => patch[p].of # "none"

\* The live mode is behind the stored one only as long as the PATCH that stored it has not
\* answered, unless a mode was used late.
LiveFollows ==
  hydrated /\ ~raced /\ live # stored.mode =>
    \E p \in Patches : patch[p].phase = "written" /\ patch[p].of = "mode" /\ patch[p].row.mode = stored.mode

\* Whatever was written since a fresh gate was made stored the gate's mode, so that nothing
\* but a race brings in a mode that has a trigger.
GateFollows(v) ==
  gates[v].phase = "on" /\ gates[v].fresh =>
    /\ hydrated /\ gates[v].mode = stored.mode
    /\ ~raced => live = stored.mode
    /\ \A p \in Patches : patch[p].phase = "written" => patch[p].row.mode = stored.mode
    /\ stored.mode = "disabled" => ~gates[v].open

Activated == ActivationShape /\ LiveFollows /\ \A v \in Voices : GateFollows(v)

LEMMA PatchesStep == ASSUME Activated, NEW p \in Patches, PatchReads(p) \/ PatchWrites(p) \/ PatchAnswers(p)
                     PROVE  Activated'
<1> USE DEF Activated, ActivationShape
<1>1. CASE PatchReads(p)
  <2>1. /\ UNCHANGED <<stored, live, hydrated, loading, gates, raced>>
        /\ patch'[p].phase = "read" /\ patch'[p].of # "none" /\ \A q \in Patches : q # p => patch'[q] = patch[q]
        /\ patch[p].phase = "idle"
    BY <1>1 DEF PatchReads
  <2>2. patch' \in [Patches -> [phase : {"idle", "read", "written"}, of : {"none", "mode", "rest"},
                                row : Stored]]
    BY <1>1 DEF PatchReads, Stored
  <2>3. LiveFollows' /\ \A v \in Voices : GateFollows(v)'
    BY <2>1 DEF LiveFollows, GateFollows
  <2> QED
    BY <2>1, <2>2, <2>3
<1>2. CASE PatchWrites(p)
  <2>1. /\ patch[p].phase = "read" /\ stored' = patch[p].row
        /\ patch' = [patch EXCEPT ![p].phase = "written"]
        /\ gates' = [v \in Voices |-> [gates[v] EXCEPT !.fresh = @ /\ stored.mode = patch[p].row.mode]]
        /\ raced' = (raced \/ (patch[p].of = "rest" /\ patch[p].row.mode # stored.mode))
        /\ UNCHANGED <<live, hydrated, loading>>
    BY <1>2 DEF PatchWrites
  <2>2. /\ patch'[p].phase = "written" /\ patch'[p].of = patch[p].of /\ patch'[p].row = patch[p].row
        /\ \A q \in Patches : q # p => patch'[q] = patch[q]
    BY <2>1
  <2>3. /\ gates' \in [Voices -> Gates]
        /\ \A v \in Voices :
             /\ gates'[v].phase = gates[v].phase /\ gates'[v].seen = gates[v].seen
             /\ gates'[v].mode = gates[v].mode /\ gates'[v].open = gates[v].open
             /\ gates'[v].fresh => gates[v].fresh /\ stored.mode = patch[p].row.mode
    <3>1. ASSUME NEW v \in Voices
          PROVE  /\ gates'[v] \in Gates
                 /\ gates'[v].phase = gates[v].phase /\ gates'[v].seen = gates[v].seen
                 /\ gates'[v].mode = gates[v].mode /\ gates'[v].open = gates[v].open
                 /\ gates'[v].fresh => gates[v].fresh /\ stored.mode = patch[p].row.mode
      <4>1. PICK b \in BOOLEAN : b <=> gates[v].fresh /\ stored.mode = patch[p].row.mode
        OBVIOUS
      <4>2. gates'[v] = [gates[v] EXCEPT !.fresh = b]
        BY <2>1, <4>1
      <4>3. gates[v] \in Gates
        OBVIOUS
      <4> QED
        BY <4>1, <4>2, <4>3 DEF Gates
    <3> QED
      BY <2>1, <3>1
  <2>4. ActivationShape'
    <3>1. /\ patch' \in [Patches -> [phase : {"idle", "read", "written"}, of : {"none", "mode", "rest"}, row : Stored]]
          /\ stored' \in Stored
      BY <2>1
    <3>2. raced' \in BOOLEAN
      BY <2>1
    <3>3. \A q \in Patches : patch'[q].phase # "idle" => patch'[q].of # "none"
      BY <2>1, <2>2
    <3>4. \A v \in Voices : gates'[v].phase = "reading" => gates'[v].seen \in Modes
      BY <2>3
    <3>5. live' \in Modes /\ hydrated' \in BOOLEAN /\ loading' \in [Sockets -> Modes \union {"none"}]
      BY <2>1
    <3> QED
      BY <2>3, <3>1, <3>2, <3>3, <3>4, <3>5
  <2>5. LiveFollows'
    <3>1. CASE patch[p].of = "mode"
      BY <2>1, <2>2, <3>1 DEF LiveFollows
    <3>2. CASE patch[p].of = "rest" /\ patch[p].row.mode = stored.mode
      BY <2>1, <2>2, <3>2 DEF LiveFollows
    <3>3. CASE patch[p].of = "rest" /\ patch[p].row.mode # stored.mode
      BY <2>1, <3>3 DEF LiveFollows
    <3> QED
      BY <2>1, <3>1, <3>2, <3>3
  <2>6. ASSUME NEW v \in Voices PROVE GateFollows(v)'
    BY <2>3, <2>1, <2>2 DEF GateFollows
  <2> QED
    BY <2>4, <2>5, <2>6
<1>3. CASE PatchAnswers(p)
  <2>1. /\ patch[p].phase = "written" /\ patch' = [patch EXCEPT ![p] = IdlePatch]
        /\ patch[p].of = "mode" => live' = patch[p].row.mode /\ hydrated' = TRUE
        /\ patch[p].of # "mode" => UNCHANGED <<live, hydrated>>
        /\ raced' = (~Settles(p) /\ (raced \/ patch[p].of = "mode"))
        /\ UNCHANGED <<stored, loading, gates>>
    BY <1>3 DEF PatchAnswers, Hydrate
  <2>2. /\ patch'[p].phase = "idle" /\ \A q \in Patches : q # p => patch'[q] = patch[q]
    BY <2>1 DEF IdlePatch
  <2>3. ActivationShape'
    BY <2>1, <2>2, ActivationAssumption DEF IdlePatch, Stored
  <2>4. LiveFollows'
    BY <2>1, <2>2 DEF LiveFollows, Settles
  <2>5. \A v \in Voices : GateFollows(v)'
    BY <2>1, <2>2 DEF GateFollows, Settles
  <2> QED
    BY <2>3, <2>4, <2>5
<1> QED
  BY <1>1, <1>2, <1>3

LEMMA VoicesStep == ASSUME Activated, NEW v \in Voices, VoiceReads(v) \/ VoiceConnects(v) \/ TurnCompletes(v) \/ VoiceLeaves(v)
                    PROVE  Activated'
<1> USE DEF Activated, ActivationShape
<1>1. CASE VoiceConnects(v)
  <2>1. /\ gates[v].phase = "reading"
        /\ hydrated => UNCHANGED <<live, hydrated>>
        /\ ~hydrated => live' = gates[v].seen /\ hydrated' = TRUE
        /\ raced' = (raced \/ (~hydrated /\ gates[v].seen # stored.mode))
        /\ UNCHANGED <<stored, patch, loading>>
    BY <1>1 DEF VoiceConnects, Hydrate
  <2>2. gates' = [gates EXCEPT ![v] = [phase |-> "on", seen |-> "none", mode |-> live',
                                       open |-> live' = "push_to_talk",
                                       fresh |-> ~raced' /\ \A p \in Patches : patch[p].phase # "written"]]
    BY <1>1 DEF VoiceConnects
  <2>3. /\ gates'[v].mode = live' /\ gates'[v].open = (live' = "push_to_talk")
        /\ gates'[v].fresh => ~raced' /\ \A p \in Patches : patch[p].phase # "written"
        /\ \A w \in Voices : w # v => gates'[w] = gates[w]
    BY <2>2
  <2>4. live' \in Modes /\ hydrated' = TRUE /\ raced' \in BOOLEAN
    BY <2>1
  <2>5. ActivationShape'
    BY <2>1, <2>2, <2>4 DEF Gates
  <2>6. LiveFollows'
    BY <2>1 DEF LiveFollows
  <2>7. GateFollows(v)'
    BY <2>1, <2>3, <2>4, <2>6 DEF GateFollows, LiveFollows
  <2>8. ASSUME NEW w \in Voices, w # v PROVE GateFollows(w)'
    BY <2>1, <2>3, <2>8 DEF GateFollows
  <2> QED
    BY <2>5, <2>6, <2>7, <2>8
<1>2. CASE VoiceReads(v) \/ TurnCompletes(v) \/ VoiceLeaves(v)
  <2>1. UNCHANGED <<stored, live, hydrated, patch, loading, raced>>
    BY <1>2 DEF VoiceReads, TurnCompletes, VoiceLeaves
  <2>2. /\ gates' \in [Voices -> Gates]
        /\ \A w \in Voices : gates'[w].phase = "reading" => gates'[w].seen \in Modes
        /\ \A w \in Voices : gates'[w].phase = "on" /\ gates'[w].fresh =>
             gates[w].phase = "on" /\ gates[w].fresh /\ gates'[w].mode = gates[w].mode
             /\ (gates'[w].open => gates[w].open)
    <3>1. CASE VoiceReads(v)
      BY <3>1 DEF VoiceReads, NoGate, Stored, Gates
    <3>2. CASE TurnCompletes(v)
      BY ZenonT(60), <3>2 DEF TurnCompletes, Gates
    <3>3. CASE VoiceLeaves(v)
      BY <3>3 DEF VoiceLeaves, NoGate, Gates
    <3> QED
      BY <1>2, <3>1, <3>2, <3>3
  <2>3. LiveFollows'
    BY <2>1 DEF LiveFollows
  <2>4. \A w \in Voices : GateFollows(w)'
    BY <2>1, <2>2 DEF GateFollows
  <2> QED
    BY <2>1, <2>2, <2>3, <2>4
<1> QED
  BY <1>1, <1>2

LEMMA ModeUsersStep ==
  ASSUME Activated, \/ \E s \in Sockets : SocketLoads(s) \/ SocketHydrates(s)
                    \/ Activates \/ ProcessRestarts
  PROVE  Activated'
<1> USE ActivationAssumption DEF Activated, ActivationShape
<1>1. ASSUME NEW s \in Sockets, SocketLoads(s) PROVE Activated'
  BY <1>1 DEF SocketLoads, LiveFollows, GateFollows, Stored, Gates
<1>2. ASSUME NEW s \in Sockets, SocketHydrates(s) PROVE Activated'
  BY <1>2 DEF SocketHydrates, Hydrate, LiveFollows, GateFollows
<1>3. CASE Activates
  <2>1. /\ live \notin {"push_to_talk", "disabled"} /\ UNCHANGED <<stored, live, hydrated, patch, loading, raced>>
        /\ gates' = [v \in Voices |-> IF gates[v].phase = "on"
                                      THEN [gates[v] EXCEPT !.open = TRUE, !.fresh = @ /\ ~raced]
                                      ELSE gates[v]]
    BY <1>3 DEF Activates
  <2>2. \A v \in Voices :
          gates'[v].phase = "on" => /\ gates[v].phase = "on" /\ gates'[v].mode = gates[v].mode
                                    /\ gates'[v].fresh => gates[v].fresh /\ ~raced
    BY <2>1 DEF Gates
  <2>3. ActivationShape'
    <3>1. ASSUME NEW v \in Voices PROVE gates'[v] \in Gates
      <4>1. PICK b \in BOOLEAN : b <=> gates[v].fresh /\ ~raced
        OBVIOUS
      <4>2. gates'[v] = IF gates[v].phase = "on" THEN [gates[v] EXCEPT !.open = TRUE, !.fresh = b] ELSE gates[v]
        BY <2>1, <4>1
      <4> QED
        BY <4>2 DEF Gates
    <3>2. gates' \in [Voices -> Gates]
      BY <2>1, <3>1
    <3>3. \A v \in Voices : gates'[v].phase = gates[v].phase /\ gates'[v].seen = gates[v].seen
      BY <2>1 DEF Gates
    <3> QED
      BY <2>1, <3>2, <3>3
  <2>4. LiveFollows'
    BY <2>1 DEF LiveFollows
  <2>5. ASSUME NEW v \in Voices PROVE GateFollows(v)'
    BY <2>1, <2>2 DEF GateFollows
  <2> QED
    BY <2>3, <2>4, <2>5
<1>4. CASE ProcessRestarts
  BY <1>4 DEF ProcessRestarts, IdlePatch, NoGate, LiveFollows, GateFollows, Stored, Gates
<1> QED
  BY <1>1, <1>2, <1>3, <1>4

\* "Push the change into the live in-memory activation manager immediately": once nothing is
\* under way the mode in force is the stored one, the gates made since have it, and one made
\* under "disabled" is shut, whatever connections, PATCHes and restarts came between, unless a
\* mode read before a change was used after it (activationManager.ts, realtimeRoute.ts).
THEOREM ModeFollows == ActivationSpec => []ActivationFollowsSettings
<1>1. ActivationInit => Activated
  <2>1. ActivationInit => ActivationShape
    <3>1. IdlePatch.row \in Stored /\ IdlePatch.phase = "idle" /\ NoGate \in Gates /\ NoGate.phase = "off"
      BY ActivationAssumption DEF IdlePatch, NoGate, Stored, Gates
    <3>2. IdlePatch \in [phase : {"idle", "read", "written"}, of : {"none", "mode", "rest"}, row : Stored]
      BY <3>1 DEF IdlePatch
    <3>3. [mode |-> "push_to_talk", rest |-> 0] \in Stored /\ "push_to_talk" \in Modes
      BY ActivationAssumption DEF Stored
    <3> QED
      BY <3>1, <3>2, <3>3 DEF ActivationInit, ActivationShape
  <2> QED
    BY <2>1 DEF ActivationInit, Activated, LiveFollows, GateFollows, NoGate
<1>2. Activated /\ UNCHANGED activationVars => Activated'
  BY DEF activationVars, Activated, ActivationShape, LiveFollows, GateFollows
<1>3. Activated => ActivationFollowsSettings
  BY DEF Activated, ActivationFollowsSettings, LiveFollows, GateFollows, Busy
<1>4. Activated /\ ActivationNext => Activated'
  BY PatchesStep, VoicesStep, ModeUsersStep DEF ActivationNext
<1> QED
  BY <1>1, <1>2, <1>3, <1>4, PTL DEF ActivationSpec

-----------------------------------------------------------------------------
(* Installed applications *)

LauncherShape ==
  /\ installed \subseteq Apps /\ launchTime \in Nat /\ lastThere \in [Apps -> Int]
  /\ cache.apps \subseteq Apps /\ cache.at \in Int /\ cache.read \in Nat
  /\ DOMAIN asker = Askers
  /\ \A a \in Askers : asker[a].apps \subseteq Apps /\ asker[a].read \in Nat

\* A list names what was there when its scan read, or later.
ListsWereTrue ==
  /\ \A x \in installed : lastThere[x] = launchTime
  /\ \A x \in Apps : lastThere[x] <= launchTime
  /\ \A x \in cache.apps : lastThere[x] >= cache.read
  /\ \A a \in Askers : asker[a].read <= launchTime /\ \A x \in asker[a].apps : lastThere[x] >= asker[a].read

\* What was opened is the choice out of the list that is in the cache, fresh enough.
OpenedFromCache ==
  opened.kind \in {"launched", "failed"} =>
    /\ opened.query \in Queries /\ opened.app \in Best(opened.query, cache.apps)
    /\ Unambiguous(opened.query, cache.apps, opened.app)
    /\ launchTime - cache.at < CacheTtl

Launching == LauncherShape /\ ListsWereTrue /\ OpenedFromCache

LEMMA OpeningChooses ==
  ASSUME NEW apps, OpenApplication(apps), opened'.kind \in {"launched", "failed"}
  PROVE  /\ opened'.query \in Queries /\ opened'.app \in Best(opened'.query, apps)
         /\ Unambiguous(opened'.query, apps, opened'.app)
<1>1. PICK q \in Queries :
        IF Matches(q, apps) = {}
          THEN opened' = [kind |-> "not_found", app |-> NoApp, query |-> q]
          ELSE \E a \in Best(q, apps) : \E kind \in (IF Unambiguous(q, apps, a) THEN LaunchByTarget ELSE {"ambiguous"}) :
                 opened' = [kind |-> kind, app |-> a, query |-> q]
  BY DEF OpenApplication
<1>2. Matches(q, apps) # {}
  BY <1>1
<1>3. PICK a \in Best(q, apps), kind \in {"launched", "failed", "ambiguous"} :
        /\ opened' = [kind |-> kind, app |-> a, query |-> q]
        /\ kind = "ambiguous" \/ Unambiguous(q, apps, a)
  BY <1>1, <1>2 DEF LaunchByTarget
<1> QED
  BY <1>3

LEMMA LauncherStep == ASSUME Launching, LauncherNext PROVE Launching'
<1> USE LauncherAssumption DEF Launching, LauncherShape
<1>1. ASSUME NEW a \in Askers, AsksToOpen(a) PROVE Launching'
  <2>1. UNCHANGED <<installed, cache, launchTime, lastThere>>
    BY <1>1 DEF AsksToOpen
  <2>2. DOMAIN asker' = Askers /\ \A b \in Askers : asker'[b].apps \in {asker[b].apps, {}}
                                                /\ asker'[b].read \in {asker[b].read, 0}
    BY <1>1 DEF AsksToOpen, Resting
  <2>3. LauncherShape' /\ ListsWereTrue'
    BY <2>1, <2>2 DEF ListsWereTrue
  <2>4. ASSUME opened'.kind \in {"launched", "failed"} PROVE CacheIsFresh /\ OpenApplication(cache.apps)
    BY <1>1, <2>4 DEF AsksToOpen, NoOutcome
  <2>5. OpenedFromCache'
    BY <2>1, <2>4, OpeningChooses DEF OpenedFromCache, CacheIsFresh, Best, Matches, Unambiguous
  <2> QED
    BY <2>3, <2>5
<1>2. ASSUME NEW a \in Askers, ScanReads(a) PROVE Launching'
  <2>1. UNCHANGED <<installed, cache, launchTime, lastThere>> /\ opened' = NoOutcome
    BY <1>2 DEF ScanReads
  <2>2. PICK unreadable \in SUBSET (Places \union {"shell"}) :
          asker' = [asker EXCEPT ![a].pc = "scanned", ![a].apps = Discovered(unreadable), ![a].read = launchTime]
    BY <1>2 DEF ScanReads
  <2>3. Discovered(unreadable) \subseteq installed
    BY DEF Discovered, ReadableEntries
  <2>4. DOMAIN asker' = Askers /\ \A b \in Askers :
          (asker'[b].apps = asker[b].apps /\ asker'[b].read = asker[b].read)
          \/ (asker'[b].apps \subseteq installed /\ asker'[b].read = launchTime)
    BY <2>2, <2>3
  <2> QED
    BY <2>1, <2>4 DEF ListsWereTrue, OpenedFromCache, NoOutcome
<1>3. ASSUME NEW a \in Askers, ScanEnds(a) PROVE Launching'
  <2>1. /\ cache' = [apps |-> asker[a].apps, at |-> launchTime, read |-> asker[a].read]
        /\ OpenApplication(asker[a].apps) /\ asker' = [asker EXCEPT ![a] = Resting]
        /\ UNCHANGED <<installed, launchTime, lastThere>>
    BY <1>3 DEF ScanEnds
  <2>2. DOMAIN asker' = Askers /\ \A b \in Askers : asker'[b].apps \in {asker[b].apps, {}}
                                                /\ asker'[b].read \in {asker[b].read, 0}
    BY <2>1 DEF Resting
  <2>3. LauncherShape' /\ ListsWereTrue'
    BY <2>1, <2>2 DEF ListsWereTrue
  <2>4. OpenedFromCache'
    BY <2>1, OpeningChooses DEF OpenedFromCache, Best, Matches, Unambiguous
  <2> QED
    BY <2>3, <2>4
<1>4. CASE Installs \/ Uninstalls \/ LaunchTimePasses
  BY <1>4 DEF Installs, Uninstalls, LaunchTimePasses, ListsWereTrue, OpenedFromCache, NoOutcome
<1> QED
  BY <1>1, <1>2, <1>3, <1>4 DEF LauncherNext

\* appLauncher.ts: what is opened was installed not longer ago than a list is kept and its scan
\* took, fits the words best of all that is listed, and is not one of several that fit partly
\* and about as well; for any applications, queries and scores, however scans overlap.
THEOREM OpensBest == LauncherSpec => []OpensWhatFits
<1>1. LauncherInit => Launching
  BY LauncherAssumption
  DEF LauncherInit, Launching, LauncherShape, ListsWereTrue, OpenedFromCache, Resting, NoOutcome
<1>2. Launching /\ UNCHANGED launcherVars => Launching'
  BY DEF launcherVars, Launching, LauncherShape, ListsWereTrue, OpenedFromCache, Best, Matches, Unambiguous
<1>3. Launching => OpensWhatFits
  <2> SUFFICES ASSUME Launching, opened.kind \in {"launched", "failed"}
               PROVE  OpensWhatFits
    BY DEF OpensWhatFits
  <2>1. PICK q \in Queries, x \in Apps : q = opened.query /\ x = opened.app
    BY DEF Launching, LauncherShape, OpenedFromCache, Best, Matches
  <2>2. x \in Best(q, cache.apps) /\ Unambiguous(q, cache.apps, x) /\ launchTime - cache.at < CacheTtl
    BY <2>1 DEF Launching, OpenedFromCache
  <2>3. \A b \in Apps : ScoreOf[q][b] \in 0..100
    BY LauncherAssumption
  <2>4. x \in cache.apps /\ cache.apps \subseteq Apps /\ ScoreOf[q][x] > 0
    BY <2>2 DEF Best, Matches, Launching, LauncherShape
  <2>5. launchTime - lastThere[x] < CacheTtl + (cache.at - cache.read)
    BY <2>2, <2>4, LauncherAssumption DEF Launching, LauncherShape, ListsWereTrue
  <2>6. \A b \in cache.apps : ScoreOf[q][b] <= ScoreOf[q][x]
    BY <2>2, <2>3, <2>4 DEF Best, Matches
  <2>7. ASSUME ScoreOf[q][x] < 80, NEW b \in cache.apps \ {x}
        PROVE  ScoreOf[q][b] = 0 \/ ScoreOf[q][x] - ScoreOf[q][b] >= 30
    <3>1. b \in Matches(q, cache.apps) \/ ScoreOf[q][b] = 0
      BY <2>3, <2>4 DEF Matches
    <3> QED
      BY <2>2, <2>3, <2>4, <2>7, <3>1 DEF Unambiguous
  <2> QED
    BY <2>1, <2>5, <2>6, <2>7 DEF OpensWhatFits
<1> QED
  BY <1>1, <1>2, <1>3, LauncherStep, PTL DEF LauncherSpec

-----------------------------------------------------------------------------
(* The memories of a conversation *)

LEMMA RetrievalNumbers ==
  /\ Weights \subseteq 1 .. 5 /\ Pool \in Nat \ {0} /\ Most \in Nat \ {0}
  /\ IsFiniteSet(Memos) /\ IsFiniteSet(Topics)
  BY RetrievalAssumption DEF RetrievalAssumption

\* RelevantAreFound, for a store, a time and an answer.
Serves(mem, now, found, asked, q) ==
  LET given == ToSet(found)
      alive == {m \in Memos : mem[m].live}
      fits(m) == mem[m].live /\ (asked => mem[m].about \intersect q # {})
  IN /\ \A m \in given : fits(m)
     /\ \A m \in Memos \ given :
          fits(m) => \/ Len(found) = Most /\ \A x \in given : Score(mem[x], now, q) >= Score(mem[m], now, q)
                     \/ Cardinality({x \in alive \ {m} : mem[x].updated >= mem[m].updated}) >= Pool

Rows == [live : BOOLEAN, importance : 1 .. 5, about : SUBSET Topics, updated : Nat]

\* The inductive invariant of retrieval: rows are not from the future, an answer stands only
\* while it is handed over, and it serves.
RetrievalKept ==
  /\ fortnight \in Nat /\ memo \in [Memos -> Rows]
  /\ \A m \in Memos : memo[m].updated <= fortnight
  /\ unchanged => retrieval.pc = "scored"
  /\ RelevantAreFound

\* The minimum of two numbers.
LEMMA LeastOfTwo ==
  ASSUME NEW a \in Nat, NEW b \in Nat
  PROVE  /\ Min({a, b}) \in {a, b} /\ Min({a, b}) <= a /\ Min({a, b}) <= b
<1>1. \E x \in {a, b} : \A y \in {a, b} : x <= y
  <2>1. CASE a <= b
    BY <2>1
  <2>2. CASE ~(a <= b)
    BY <2>2
  <2> QED
    BY <2>1, <2>2
<1>2. Min({a, b}) \in {a, b} /\ \A y \in {a, b} : Min({a, b}) <= y
  BY <1>1, Zenon DEF Min
<1> QED
  BY <1>2

\* Numbers of which none is less than the next go down all the way.
LEMMA GoesDown ==
  ASSUME NEW n \in Nat, NEW f \in [1 .. n -> Int], \A i \in 1 .. n - 1 : f[i] >= f[i + 1],
         NEW i \in 1 .. n, NEW j \in 1 .. n, i <= j
  PROVE  f[i] >= f[j]
<1> DEFINE T == {k \in Nat : i + k \in 1 .. n => f[i] >= f[i + k]}
<1>1. 0 \in T
  OBVIOUS
<1>2. ASSUME NEW k \in Nat, k \in T
      PROVE  k + 1 \in T
  <2> SUFFICES ASSUME i + (k + 1) \in 1 .. n PROVE f[i] >= f[i + (k + 1)]
    OBVIOUS
  <2>1. i + k \in 1 .. n - 1 /\ i + k \in 1 .. n /\ i + (k + 1) = (i + k) + 1
    OBVIOUS
  <2>2. f[i] >= f[i + k] /\ f[i + k] >= f[(i + k) + 1]
    BY <1>2, <2>1
  <2>3. f[i] \in Int /\ f[i + k] \in Int /\ f[(i + k) + 1] \in Int
    BY <2>1
  <2> QED
    BY <2>1, <2>2, <2>3
<1> HIDE DEF T
<1>3. j - i \in T
  <2>1. j - i \in Nat
    OBVIOUS
  <2> QED
    BY <1>1, <1>2, <2>1, SetInduction
<1>4. i + (j - i) = j
  OBVIOUS
<1> QED
  BY <1>3, <1>4 DEF T

\* An order of a finite set has all of it.
LEMMA OrderHasAll ==
  ASSUME NEW R, IsFiniteSet(R), NEW s \in SetToSeqs(R)
  PROVE  /\ Cardinality(R) \in Nat /\ s \in Seq(R) /\ Len(s) = Cardinality(R)
         /\ \A x \in R : \E i \in 1 .. Len(s) : s[i] = x
<1> DEFINE n == Cardinality(R)
<1>1. n \in Nat
  BY FS_CardinalityType
<1>2. s \in [1 .. n -> R] /\ \A i, j \in 1 .. n : i # j => s[i] # s[j]
  BY DEF SetToSeqs
<1>3. Cardinality(1 .. n) = n
  BY <1>1, FS_Interval
<1> HIDE DEF n
<1>4. s \in Injection(1 .. n, R)
  BY <1>2 DEF Injection, IsInjective
<1>5. s \in Surjection(1 .. n, R)
  BY <1>3, <1>4, FS_Injection DEF n
<1>6. s \in Seq(R) /\ Len(s) = n
  BY <1>1, <1>2
<1>7. \A x \in R : \E i \in 1 .. n : s[i] = x
  BY <1>5 DEF Surjection
<1> QED
  BY <1>1, <1>6, <1>7 DEF n

\* The words of a query that a memory shares are none if there is none of them in it.
LEMMA SharesSome ==
  ASSUME NEW row \in Rows, NEW q \in SUBSET Topics
  PROVE  Shared(row, q) \in Nat /\ (Shared(row, q) > 0 <=> row.about \intersect q # {})
<1>1. row.about \intersect q \in SUBSET Topics
  BY DEF Rows
<1>2. IsFiniteSet(row.about \intersect q)
  BY <1>1, RetrievalNumbers, FS_Subset
<1>3. Cardinality(row.about \intersect q) \in Nat
  BY <1>2, FS_CardinalityType
<1>4. Cardinality(row.about \intersect q) = 0 <=> row.about \intersect q = {}
  BY <1>2, FS_EmptySet
<1> DEFINE c == Cardinality(row.about \intersect q)
<1> HIDE DEF c
<1>5. c \in Nat /\ (c > 0 <=> row.about \intersect q # {})
  BY <1>3, <1>4 DEF c
<1> QED
  BY <1>5 DEF Shared, c

LEMMA ScoresAreNumbers ==
  ASSUME NEW row \in Rows, NEW q \in SUBSET Topics, NEW now \in Nat, row.updated <= now
  PROVE  Score(row, now, q) \in Int
<1>1. row.importance \in Int /\ row.updated \in Nat
  BY DEF Rows
<1>2. \A a \in Int, b \in Nat \ {0} : a \div b \in Int
  OBVIOUS
<1>3. 1 + now - row.updated \in Nat \ {0}
  BY <1>1
<1>4. 300 \div (1 + now - row.updated) \in Int
  BY <1>2, <1>3
<1> DEFINE rest == IF q = {} THEN 0 ELSE (360 * Shared(row, q)) \div Cardinality(q)
<1>5. rest \in Int
  <2>1. CASE q = {}
    BY <2>1
  <2>2. CASE q # {}
    <3>1. IsFiniteSet(q)
      BY RetrievalNumbers, FS_Subset
    <3>2. Cardinality(q) \in Nat /\ Cardinality(q) # 0
      BY <2>2, <3>1, FS_CardinalityType, FS_EmptySet
    <3>3. 360 * Shared(row, q) \in Int
      BY SharesSome
    <3>4. (360 * Shared(row, q)) \div Cardinality(q) \in Int
      BY <1>2, <3>2, <3>3
    <3> QED
      BY <2>2, <3>4
  <2> QED
    BY <2>1, <2>2
<1> DEFINE recent == 300 \div (1 + now - row.updated)
<1>6. Score(row, now, q) = 108 * row.importance + recent + rest
  BY DEF Score
<1> HIDE DEF rest, recent
<1>7. recent \in Int
  BY <1>4 DEF recent
<1> QED
  BY <1>1, <1>5, <1>6, <1>7

\* What is cut from the ranking of the candidates serves.
LEMMA CutServes ==
  ASSUME RetrievalKept, NEW asked \in BOOLEAN, NEW q \in SUBSET Topics,
         NEW C \in CandidateSets, NEW s \in Rankings({c \in C : Relevant(memo[c], asked, q)}, q)
  PROVE  Serves(memo, fortnight, SubSeq(s, 1, Min({Most, Len(s)})), asked, q)
<1> DEFINE R == {c \in C : Relevant(memo[c], asked, q)}
           n == Len(s)
           value(m) == Score(memo[m], fortnight, q)
           cut == Min({Most, Len(s)})
           found == SubSeq(s, 1, cut)
           fits(m) == memo[m].live /\ (asked => memo[m].about \intersect q # {})
<1>1. /\ fortnight \in Nat /\ memo \in [Memos -> Rows]
      /\ \A m \in Memos : memo[m].updated <= fortnight
  BY DEF RetrievalKept
<1>2. Live \subseteq Memos /\ IsFiniteSet(Live)
  <2>1. Live \in SUBSET Memos
    BY DEF Live
  <2> QED
    BY <2>1, RetrievalNumbers, FS_Subset
<1>3. /\ C \subseteq Live /\ Cardinality(C) = Min({Pool, Cardinality(Live)})
      /\ \A c \in C, d \in Live \ C : memo[c].updated >= memo[d].updated
  BY DEF CandidateSets
<1>4. IsFiniteSet(C)
  BY <1>2, <1>3, FS_Subset
<1>5. R \subseteq Memos /\ IsFiniteSet(R)
  <2>1. R \in SUBSET C
    OBVIOUS
  <2> QED
    BY <1>2, <1>3, <1>4, <2>1, FS_Subset
<1>6. s \in SetToSeqs(R) /\ \A i \in 1 .. n - 1 : value(s[i]) >= value(s[i + 1])
  BY DEF Rankings
<1> HIDE DEF R
<1>7. n \in Nat /\ s \in Seq(R) /\ \A x \in R : \E i \in 1 .. n : s[i] = x
  BY <1>5, <1>6, OrderHasAll
<1>8. cut \in {Most, n} /\ cut <= Most /\ cut <= n /\ cut \in Nat
  <2>1. Most \in Nat
    BY RetrievalNumbers
  <2> QED
    BY <1>7, <2>1, LeastOfTwo
<1> HIDE DEF cut
<1>9. found \in Seq(R) /\ Len(found) = cut /\ \A i \in 1 .. cut : found[i] = s[i] /\ i \in 1 .. n /\ s[i] \in R
  BY <1>7, <1>8
<1> HIDE DEF found
<1>10. ToSet(found) = {s[i] : i \in 1 .. cut}
  <2>1. DOMAIN found = 1 .. cut
    BY <1>9
  <2> QED
    BY <1>9, <2>1, Zenon DEF ToSet
<1>11. ASSUME NEW m \in Memos
       PROVE  asked => (Relevant(memo[m], asked, q) <=> memo[m].about \intersect q # {})
  <2>1. memo[m] \in Rows
    BY <1>1
  <2> QED
    BY <2>1, SharesSome DEF Relevant
<1>12. ASSUME NEW m \in R
       PROVE  fits(m)
  <2>1. m \in C /\ Relevant(memo[m], asked, q)
    BY DEF R
  <2>2. m \in Memos /\ memo[m].live
    BY <1>3, <2>1 DEF Live
  <2> QED
    BY <1>11, <2>1, <2>2
<1>13. \A m \in ToSet(found) : fits(m)
  BY <1>9, <1>10, <1>12
<1>14. ASSUME NEW i \in 1 .. n, NEW j \in 1 .. n, i <= j
       PROVE  value(s[i]) >= value(s[j])
  <2> DEFINE f == [k \in 1 .. n |-> value(s[k])]
  <2>1. ASSUME NEW k \in 1 .. n
        PROVE  value(s[k]) \in Int
    <3>1. s[k] \in Memos
      BY <1>5, <1>7
    <3>2. memo[s[k]] \in Rows /\ memo[s[k]].updated <= fortnight
      BY <1>1, <3>1
    <3> QED
      BY <1>1, <3>2, ScoresAreNumbers
  <2> HIDE DEF value
  <2>2. f \in [1 .. n -> Int]
    BY <2>1
  <2>3. \A k \in 1 .. n - 1 : f[k] >= f[k + 1]
    <3> SUFFICES ASSUME NEW k \in 1 .. n - 1 PROVE f[k] >= f[k + 1]
      OBVIOUS
    <3>1. k \in 1 .. n /\ k + 1 \in 1 .. n
      BY <1>7
    <3>2. value(s[k]) >= value(s[k + 1])
      BY <1>6 DEF value
    <3> QED
      BY <3>1, <3>2
  <2> HIDE DEF f
  <2>4. f[i] >= f[j]
    BY <1>7, <1>14, <2>2, <2>3, GoesDown
  <2> QED
    BY <2>4 DEF f
<1>15. ASSUME NEW m \in Memos \ ToSet(found), fits(m), m \in C
       PROVE  cut = Most /\ \A x \in ToSet(found) : value(x) >= value(m)
  <2>1. m \in R
    BY <1>11, <1>15 DEF R, Relevant
  <2>2. PICK j \in 1 .. n : s[j] = m
    BY <1>7, <2>1
  <2>3. j > cut
    <3>1. j \notin 1 .. cut
      BY <1>10, <1>15, <2>2
    <3> QED
      BY <1>7, <1>8, <3>1
  <2>4. cut = Most
    BY <1>7, <1>8, <2>3
  <2>5. ASSUME NEW x \in ToSet(found)
        PROVE  value(x) >= value(m)
    <3>1. PICK i \in 1 .. cut : x = s[i]
      BY <1>10
    <3>2. i \in 1 .. n /\ i <= j
      BY <1>7, <1>8, <2>3
    <3> HIDE DEF value
    <3>3. value(s[i]) >= value(s[j])
      BY <1>14, <3>2
    <3> QED
      BY <2>2, <3>1, <3>3
  <2> QED
    BY <2>4, <2>5
<1> DEFINE younger(m) == {x \in Live \ {m} : memo[x].updated >= memo[m].updated}
<1>16. ASSUME NEW m \in Memos \ ToSet(found), fits(m), m \notin C
       PROVE  Cardinality(younger(m)) >= Pool
  <2>1. m \in Live \ C
    BY <1>16 DEF Live
  <2>2. C \subseteq younger(m)
    BY <1>3, <2>1
  <2>3. IsFiniteSet(younger(m))
    <3>1. younger(m) \in SUBSET Live
      OBVIOUS
    <3> HIDE DEF younger
    <3> QED
      BY <1>2, <3>1, FS_Subset
  <2> HIDE DEF younger
  <2>4. Cardinality(C) <= Cardinality(younger(m)) /\ Cardinality(younger(m)) \in Nat /\ Cardinality(C) \in Nat
    BY <1>4, <2>2, <2>3, FS_Subset, FS_CardinalityType
  <2>5. Cardinality(Live) # Cardinality(C)
    BY <1>2, <1>3, <2>1, FS_Subset
  <2>6. Cardinality(Live) \in Nat /\ Pool \in Nat
    BY <1>2, FS_CardinalityType, RetrievalNumbers
  <2>7. Cardinality(C) = Pool
    BY <1>3, <2>5, <2>6, LeastOfTwo
  <2> QED
    BY <2>4, <2>6, <2>7
<1> HIDE DEF value
<1>17. ASSUME NEW m \in Memos \ ToSet(found), fits(m)
       PROVE  \/ Len(found) = Most /\ \A x \in ToSet(found) : value(x) >= value(m)
              \/ Cardinality(younger(m)) >= Pool
  <2>1. CASE m \in C
    BY <1>9, <1>15, <1>17, <2>1
  <2>2. CASE m \notin C
    <3> HIDE DEF younger
    <3> QED
      BY <1>16, <1>17, <2>2
  <2> QED
    BY <2>1, <2>2
<1> QED
  BY <1>13, <1>17, Zenon DEF Serves, Live, value, found, cut

\* memory/memoryService.ts, for any memories, queries and limits: what retrieval hands over is
\* alive and to the point, and leaves out only what is no better or was touched long ago.
THEOREM RelevantIsFound == RetrievalSpec => []RelevantAreFound
<1>1. RetrievalInit => RetrievalKept
  <2> SUFFICES ASSUME RetrievalInit PROVE RetrievalKept
    OBVIOUS
  <2>1. memo = [m \in Memos |-> Gone] /\ fortnight = 0 /\ unchanged = FALSE
    BY DEF RetrievalInit
  <2>2. Gone \in Rows /\ Gone.updated = 0
    BY DEF Gone, Rows
  <2> QED
    BY <2>1, <2>2 DEF RetrievalKept, RelevantAreFound
<1>2. RetrievalKept /\ [RetrievalNext]_retrievalVars => RetrievalKept'
  <2> SUFFICES ASSUME RetrievalKept, [RetrievalNext]_retrievalVars PROVE RetrievalKept'
    OBVIOUS
  <2>0. /\ fortnight \in Nat /\ memo \in [Memos -> Rows]
        /\ \A m \in Memos : memo[m].updated <= fortnight
        /\ unchanged => retrieval.pc = "scored"
    BY DEF RetrievalKept
  <2>1. ASSUME NEW m \in Memos, IsWritten(m)
        PROVE  RetrievalKept'
    <3>1. PICK i \in Weights, about \in SUBSET Topics :
            memo' = [memo EXCEPT ![m] = [live |-> TRUE, importance |-> i, about |-> about, updated |-> fortnight]]
      BY <2>1 DEF IsWritten
    <3>2. unchanged' = FALSE /\ fortnight' = fortnight
      BY <2>1 DEF IsWritten
    <3> DEFINE row == [live |-> TRUE, importance |-> i, about |-> about, updated |-> fortnight]
    <3>3. row \in Rows /\ row.updated = fortnight
      BY <2>0, RetrievalNumbers DEF Rows
    <3> HIDE DEF row
    <3>4. memo' = [memo EXCEPT ![m] = row]
      BY <3>1 DEF row
    <3>5. memo' \in [Memos -> Rows] /\ \A x \in Memos : memo'[x].updated <= fortnight
      BY <2>0, <3>3, <3>4
    <3> QED
      BY <2>0, <3>2, <3>5 DEF RetrievalKept, RelevantAreFound
  <2>2. ASSUME NEW m \in Memos, IsDropped(m)
        PROVE  RetrievalKept'
    <3>1. memo' = [memo EXCEPT ![m] = Gone] /\ unchanged' = FALSE /\ fortnight' = fortnight
      BY <2>2 DEF IsDropped
    <3>2. Gone \in Rows /\ Gone.updated = 0
      BY DEF Gone, Rows
    <3>3. memo' \in [Memos -> Rows] /\ \A x \in Memos : memo'[x].updated <= fortnight
      BY <2>0, <3>1, <3>2
    <3> QED
      BY <2>0, <3>1, <3>3 DEF RetrievalKept, RelevantAreFound
  <2>3. CASE FortnightPasses
    <3>1. fortnight' = fortnight + 1 /\ memo' = memo /\ retrieval' = retrieval /\ unchanged' = unchanged
          /\ retrieval.pc = "idle"
      BY <2>3 DEF FortnightPasses
    <3>2. ~unchanged'
      BY <2>0, <3>1
    <3>3. \A m \in Memos : memo[m].updated <= fortnight + 1
      <4> SUFFICES ASSUME NEW m \in Memos PROVE memo[m].updated <= fortnight + 1
        OBVIOUS
      <4>1. memo[m].updated \in Nat /\ memo[m].updated <= fortnight
        BY <2>0 DEF Rows
      <4> QED
        BY <2>0, <4>1
    <3> QED
      BY <2>0, <3>1, <3>2, <3>3 DEF RetrievalKept, RelevantAreFound
  <2>4. CASE Marks
    <3>1. /\ memo' = [m \in Memos |-> IF m \in ToSet(retrieval.found) /\ memo[m].live
                                        THEN [memo[m] EXCEPT !.updated = fortnight] ELSE memo[m]]
          /\ unchanged' = FALSE /\ fortnight' = fortnight
      BY <2>4 DEF Marks
    <3>2. ASSUME NEW m \in Memos
          PROVE  memo'[m] \in Rows /\ memo'[m].updated <= fortnight
      <4> DEFINE touched == [memo[m] EXCEPT !.updated = fortnight]
      <4>1. memo[m] \in Rows /\ memo[m].updated <= fortnight
        BY <2>0
      <4>2. touched \in Rows /\ touched.updated = fortnight
        BY <2>0, <4>1 DEF Rows
      <4>3. memo'[m] = touched \/ memo'[m] = memo[m]
        BY <3>1
      <4> HIDE DEF touched
      <4> QED
        BY <2>0, <4>1, <4>2, <4>3
    <3>3. memo' \in [Memos -> Rows]
      BY <3>1, <3>2
    <3> QED
      BY <2>0, <3>1, <3>2, <3>3 DEF RetrievalKept, RelevantAreFound
  <2>5. ASSUME NEW asked \in BOOLEAN, NEW q \in SUBSET Topics, ScoresCandidates(asked, q)
        PROVE  RetrievalKept'
    <3>1. PICK C \in CandidateSets : \E s \in Rankings({c \in C : Relevant(memo[c], asked, q)}, q) :
            retrieval' = [pc |-> "scored", asked |-> asked, query |-> q, found |-> SubSeq(s, 1, Min({Most, Len(s)}))]
      BY <2>5 DEF ScoresCandidates
    <3>2. PICK s \in Rankings({c \in C : Relevant(memo[c], asked, q)}, q) :
            retrieval' = [pc |-> "scored", asked |-> asked, query |-> q, found |-> SubSeq(s, 1, Min({Most, Len(s)}))]
      BY <3>1
    <3>3. memo' = memo /\ fortnight' = fortnight
      BY <2>5 DEF ScoresCandidates
    <3> DEFINE cut == SubSeq(s, 1, Min({Most, Len(s)}))
    <3>4. Serves(memo, fortnight, cut, asked, q)
      BY CutServes
    <3> HIDE DEF cut
    <3>5. retrieval'.pc = "scored" /\ retrieval'.asked = asked /\ retrieval'.query = q /\ retrieval'.found = cut
      BY <3>2 DEF cut
    <3>6. Serves(memo', fortnight', retrieval'.found, retrieval'.asked, retrieval'.query)
      BY <3>3, <3>4, <3>5
    <3>7. RelevantAreFound'
      BY <3>6, Zenon DEF RelevantAreFound, Serves, Live
    <3> QED
      BY <2>0, <3>3, <3>5, <3>7 DEF RetrievalKept
  <2>6. CASE UNCHANGED retrievalVars
    BY <2>6 DEF retrievalVars, RetrievalKept, RelevantAreFound, Live
  <2> QED
    BY <2>1, <2>2, <2>3, <2>4, <2>5, <2>6 DEF RetrievalNext
<1>3. RetrievalKept => RelevantAreFound
  BY DEF RetrievalKept
<1> QED
  BY <1>1, <1>2, <1>3, PTL DEF RetrievalSpec
=============================================================================
