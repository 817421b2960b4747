---------------------------- MODULE BrowserSessions ----------------------------
(***************************************************************************)
(* The browsers of the browser tool (browser/browserManager.ts, called by  *)
(* tools/builtin/browserTool.ts): one Chromium, one context per session id *)
(* (user and task), a reaper of idle sessions, and the shutdown.           *)
(***************************************************************************)
EXTENDS Integers, FiniteSets

CONSTANTS
  Pages,         \* session ids
  Contexts, NoContext,
  Users,         \* calls of the tool that may run at once
  NoPage,
  IdleLimit,     \* SESSION_TTL_MS
  MaxBrowsers, MaxBrowserTime  \* bounds

ASSUME BrowserAssumption ==
  NoContext \notin Contexts /\ NoPage \notin Pages /\ {IdleLimit, MaxBrowsers, MaxBrowserTime} \subseteq Nat

VARIABLES
  browser,     \* the launched browser getBrowser knows, 0 for none
  launched,    \* browsers launched
  running,     \* browsers still running
  context,     \* context -> [state, page, in]: "unused", "open", "closed", in the browser `in`
  pages,       \* session id -> its context
  lastUsedAt,
  use,         \* call -> [step, page, in]: "idle" (also while it acts on its page), "launching", "opening"
  reaper,      \* "none", "set", "cleared": its timer is never null again
  browserTime,
  contested,   \* ghost: session ids two calls made a context for at once
  doubleLaunch \* ghost: a launch was begun beside another

browserVars == <<browser, launched, running, context, pages, lastUsedAt, use, reaper, browserTime,
                 contested, doubleLaunch>>

IdleUse == [step |-> "idle", page |-> NoPage, in |-> 0]
Closed == [state |-> "closed", page |-> NoPage, in |-> 0]
SomePages == Pages \union {NoPage}

BrowserTypeOK ==
  /\ {browser, launched} \subseteq 0..MaxBrowsers /\ running \subseteq 1..MaxBrowsers
  /\ context \in [Contexts -> [state : {"unused", "open", "closed"}, page : SomePages, in : 0..MaxBrowsers]]
  /\ pages \in [Pages -> Contexts \union {NoContext}] /\ lastUsedAt \in [Pages -> 0..MaxBrowserTime]
  /\ use \in [Users -> [step : {"idle", "launching", "opening"}, page : SomePages,
                        in : 0..MaxBrowsers]]
  /\ reaper \in {"none", "set", "cleared"} /\ browserTime \in 0..MaxBrowserTime
  /\ contested \subseteq Pages /\ doubleLaunch \in BOOLEAN

BrowserInit ==
  /\ browser = 0 /\ launched = 0 /\ running = {}
  /\ context = [c \in Contexts |-> [state |-> "unused", page |-> NoPage, in |-> 0]]
  /\ pages = [p \in Pages |-> NoContext] /\ lastUsedAt = [p \in Pages |-> 0]
  /\ use = [u \in Users |-> IdleUse] /\ reaper = "none" /\ browserTime = 0
  /\ contested = {} /\ doubleLaunch = FALSE

UseIs(u, step, p, b) == use' = [use EXCEPT ![u] = [step |-> step, page |-> p, in |-> b]]
Making(p) == \E u \in Users : use[u].page = p /\ use[u].step \in {"launching", "opening"}

-----------------------------------------------------------------------------
(* getSession *)

\* A registered session is used again; otherwise a context is asked for, of the browser or of a new one.
UsesSession(p) ==
  /\ pages[p] # NoContext /\ lastUsedAt' = [lastUsedAt EXCEPT ![p] = browserTime]
  /\ UNCHANGED <<browser, launched, running, context, pages, use, reaper, browserTime, contested, doubleLaunch>>

AsksForSession(u, p) ==
  /\ use[u] = IdleUse /\ pages[p] = NoContext
  /\ UseIs(u, IF browser = 0 THEN "launching" ELSE "opening", p, browser)
  /\ contested' = IF Making(p) THEN contested \union {p} ELSE contested
  /\ doubleLaunch' = (doubleLaunch \/ (browser = 0 /\ \E v \in Users : use[v].step = "launching"))
  /\ UNCHANGED <<browser, launched, running, context, pages, lastUsedAt, reaper, browserTime>>

\* chromium.launch comes back: the last of several is the one that is kept.
Launched(u) ==
  /\ use[u].step = "launching" /\ launched < MaxBrowsers
  /\ launched' = launched + 1 /\ browser' = launched + 1 /\ running' = running \union {launched + 1}
  /\ reaper' = IF reaper = "none" THEN "set" ELSE reaper
  /\ UseIs(u, "opening", use[u].page, launched + 1)
  /\ UNCHANGED <<context, pages, lastUsedAt, browserTime, contested, doubleLaunch>>

\* The context made next: one of those not used yet, it does not matter which.
SomeUnused == LET unused == {c \in Contexts : context[c].state = "unused"}
              IN IF unused = {} THEN {} ELSE {CHOOSE c \in unused : TRUE}

\* newContext and newPage come back: the session replaces what another call registered.
Opened(u) ==
  /\ use[u].step = "opening" /\ use[u].in \in running
  /\ LET p == use[u].page IN
     \E c \in SomeUnused :
       /\ context' = [context EXCEPT ![c] = [state |-> "open", page |-> p, in |-> use[u].in]]
       /\ pages' = [pages EXCEPT ![p] = c]
       /\ lastUsedAt' = [lastUsedAt EXCEPT ![p] = browserTime]
       /\ use' = [use EXCEPT ![u] = IdleUse]
  /\ UNCHANGED <<browser, launched, running, reaper, browserTime, contested, doubleLaunch>>

\* The launch or the context fails: its browser may have been shut down.
OpeningFails(u) ==
  /\ use[u] # IdleUse /\ use' = [use EXCEPT ![u] = IdleUse]
  /\ UNCHANGED <<browser, launched, running, context, pages, lastUsedAt, reaper, browserTime, contested,
                 doubleLaunch>>

-----------------------------------------------------------------------------
(* Closing *)

Forget(ps) ==
  /\ pages' = [p \in Pages |-> IF p \in ps THEN NoContext ELSE pages[p]]
  /\ lastUsedAt' = [p \in Pages |-> IF p \in ps THEN 0 ELSE lastUsedAt[p]]

CloseContexts_ForgetOnly(ps) == Forget(ps) /\ UNCHANGED context

\* closeSession: forgotten at once, then closed.
CloseContexts(ps) ==
  /\ Forget(ps)
  /\ context' = [c \in Contexts |-> IF \E p \in ps : pages[p] = c
                                    THEN Closed ELSE context[c]]

\* The tool's "close".
ToolCloses(p) ==
  /\ pages[p] # NoContext /\ CloseContexts({p})
  /\ UNCHANGED <<browser, launched, running, use, reaper, browserTime, contested, doubleLaunch>>

IdlePages == {p \in Pages : pages[p] # NoContext /\ browserTime - lastUsedAt[p] > IdleLimit}

\* reapIdleSessions: lastUsedAt is when an action began, so also a session whose long action is not over.
Reaps ==
  /\ reaper = "set" /\ IdlePages # {} /\ CloseContexts(IdlePages)
  /\ UNCHANGED <<browser, launched, running, use, reaper, browserTime, contested, doubleLaunch>>

\* shutdown, one step: every registered session, then the browser that is known, with all it holds.
ShutsDown ==
  /\ browser # 0 /\ browser' = 0 /\ running' = running \ {browser}
  /\ reaper' = IF reaper = "set" THEN "cleared" ELSE reaper
  /\ Forget(Pages)
  /\ context' = [c \in Contexts |-> IF context[c].in = browser \/ c \in {pages[p] : p \in Pages}
                                    THEN Closed ELSE context[c]]
  /\ UNCHANGED <<launched, use, browserTime, contested, doubleLaunch>>

BrowserTimePasses ==
  /\ browserTime < MaxBrowserTime /\ browserTime' = browserTime + 1
  /\ UNCHANGED <<browser, launched, running, context, pages, lastUsedAt, use, reaper, contested, doubleLaunch>>

BrowserNext ==
  \/ \E u \in Users : \/ \E p \in Pages : AsksForSession(u, p)
                      \/ Launched(u) \/ Opened(u) \/ OpeningFails(u)
  \/ \E p \in Pages : UsesSession(p) \/ ToolCloses(p)
  \/ Reaps \/ ShutsDown \/ BrowserTimePasses

BrowserSpec == BrowserInit /\ [][BrowserNext]_browserVars

-----------------------------------------------------------------------------
(* Property *)

\* What runs can be closed: an open context is the one its session id finds, and the browser that runs
\* is the one shutdown knows, unless two calls that found nothing made theirs at the same time.
NothingRunsUnfindable ==
  /\ \A c \in Contexts : context[c].state = "open" =>
       context[c].page \in contested \/ pages[context[c].page] = c
  /\ running \subseteq {browser} \/ doubleLaunch
=============================================================================
