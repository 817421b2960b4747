----------------------------- MODULE AppLauncher -----------------------------
(***************************************************************************)
(* Opening an application by its name (computer/appLauncher.ts,            *)
(* computer/appDiscovery.ts): a scan of what is installed, kept for a      *)
(* while, and the match of the user's words with it.  Words and names meet *)
(* in ScoreOf; several calls may be at work, and what is installed changes *)
(* under them.                                                             *)
(***************************************************************************)
EXTENDS Integers, FiniteSets

CONSTANTS
  Apps, NoApp,
  PlaceOf,      \* app -> the directory its entry is in
  Platforms,    \* "windows", "macos", "linux": the one of the machine
  Queries,
  ScoreOf,      \* query -> app -> how well they match: 100, 80, 60, or up to 40
  Askers,       \* calls of the tool
  CacheTtl,     \* CACHE_TTL_MS
  MaxLaunchTime

ASSUME LauncherAssumption ==
  /\ NoApp \notin Apps /\ CacheTtl \in Nat \ {0} /\ MaxLaunchTime \in Nat
  /\ ScoreOf \in [Queries -> [Apps -> 0..100]]

VARIABLES
  platform,   \* of the machine
  installed,  \* the applications the machine has
  cache,      \* [apps, at, read], at < 0 while there is none; read is a ghost
  asker,      \* call -> [pc, apps, read]: what a scan of its own has read, and when
  opened,     \* the last answer: [kind, app, query], until something else happens
  launchTime,
  lastThere   \* ghost: app -> when it was installed last

launcherVars == <<platform, installed, cache, asker, opened, launchTime, lastThere>>

Resting == [pc |-> "none", apps |-> {}, read |-> 0]
NoOutcome == [kind |-> "none", app |-> NoApp, query |-> CHOOSE q \in Queries : TRUE]

LauncherTypeOK ==
  /\ platform \in Platforms /\ installed \subseteq Apps
  /\ cache.apps \subseteq Apps /\ cache.at \in -CacheTtl..MaxLaunchTime /\ cache.read \in 0..MaxLaunchTime
  /\ \A a \in Askers : /\ asker[a].pc \in {"none", "scanning", "scanned"}
                       /\ asker[a].apps \subseteq Apps /\ asker[a].read \in 0..MaxLaunchTime
  /\ opened.kind \in {"none", "launched", "failed", "ambiguous", "not_found"} /\ opened.app \in Apps \union {NoApp}
  /\ launchTime \in 0..MaxLaunchTime /\ lastThere \in [Apps -> -1..MaxLaunchTime]

LauncherInit ==
  /\ platform \in Platforms /\ installed \in SUBSET Apps
  /\ cache = [apps |-> {}, at |-> -CacheTtl, read |-> 0]
  /\ asker = [a \in Askers |-> Resting] /\ opened = NoOutcome
  /\ launchTime = 0
  /\ lastThere = [a \in Apps |-> IF a \in installed THEN 0 ELSE -1]

-----------------------------------------------------------------------------
(* Discovery *)

Places == {PlaceOf[a] : a \in Apps}
ReadableEntries(unreadable) == {a \in installed : PlaceOf[a] \notin unreadable}

\* What a scan finds: directories that cannot be read are passed over.  On Windows the
\* shell is asked for its list first; when it fails or has none, its menu is looked through.
Discovered(unreadable) ==
  IF platform = "windows" /\ "shell" \notin unreadable /\ installed # {} THEN installed
  ELSE ReadableEntries(unreadable)

CacheIsFresh_Ever == cache.at >= 0
CacheIsFresh == cache.at >= 0 /\ launchTime - cache.at < CacheTtl

-----------------------------------------------------------------------------
(* The match *)

\* matchApplications: whatever matches at all (of which eight at most are kept), and openApplication's choice.
Matches(q, apps) == {a \in apps : ScoreOf[q][a] > 0}

Best_Any(q, apps) == Matches(q, apps)
\* The first of the sorted list: of equal scores, the one the scan met first.
Best(q, apps) == {a \in Matches(q, apps) : \A b \in Matches(q, apps) : ScoreOf[q][b] <= ScoreOf[q][a]}

\* Alone, or an exact or prefix match, or 30 ahead of the next.
Unambiguous(q, apps, a) ==
  \/ Matches(q, apps) = {a}
  \/ ScoreOf[q][a] >= 80
  \/ \A b \in Matches(q, apps) \ {a} : ScoreOf[q][a] - ScoreOf[q][b] >= 30

\* launchByTarget: on Linux a shell is spawned, and nobody learns how that went.
LaunchByTarget == IF platform = "linux" THEN {"launched"} ELSE {"launched", "failed"}

\* The answer to someone's words, by the list it is from: nothing before looks at the words.
OpenApplication(apps) == \E q \in Queries :
  IF Matches(q, apps) = {}
    THEN opened' = [kind |-> "not_found", app |-> NoApp, query |-> q]
    ELSE \E a \in Best(q, apps) : \E kind \in (IF Unambiguous(q, apps, a) THEN LaunchByTarget ELSE {"ambiguous"}) :
           opened' = [kind |-> kind, app |-> a, query |-> q]

\* Fresh enough, and answered at once; or it scans.
AsksToOpen(a) ==
  /\ asker[a].pc = "none"
  /\ IF CacheIsFresh
       THEN OpenApplication(cache.apps) /\ UNCHANGED asker
       ELSE /\ asker' = [asker EXCEPT ![a] = [Resting EXCEPT !.pc = "scanning"]]
            /\ opened' = NoOutcome
  /\ UNCHANGED <<platform, installed, cache, launchTime, lastThere>>

ScanReads(a) ==
  /\ asker[a].pc = "scanning"
  /\ \E unreadable \in SUBSET (Places \union {"shell"}) :
       asker' = [asker EXCEPT ![a].pc = "scanned", ![a].apps = Discovered(unreadable), ![a].read = launchTime]
  /\ opened' = NoOutcome
  /\ UNCHANGED <<platform, installed, cache, launchTime, lastThere>>

\* The cache takes what came last, read last or not.
ScanEnds(a) ==
  /\ asker[a].pc = "scanned"
  /\ cache' = [apps |-> asker[a].apps, at |-> launchTime, read |-> asker[a].read]
  /\ OpenApplication(asker[a].apps)
  /\ asker' = [asker EXCEPT ![a] = Resting]
  /\ UNCHANGED <<platform, installed, launchTime, lastThere>>

-----------------------------------------------------------------------------
(* The machine *)

Installs == /\ \E a \in Apps \ installed : /\ installed' = installed \union {a}
                                           /\ lastThere' = [lastThere EXCEPT ![a] = launchTime]
            /\ opened' = NoOutcome /\ UNCHANGED <<platform, cache, asker, launchTime>>

Uninstalls == /\ \E a \in installed : installed' = installed \ {a}
              /\ opened' = NoOutcome /\ UNCHANGED <<platform, cache, asker, launchTime, lastThere>>

LaunchTimePasses ==
  /\ launchTime < MaxLaunchTime /\ launchTime' = launchTime + 1
  /\ lastThere' = [a \in Apps |-> IF a \in installed THEN launchTime' ELSE lastThere[a]]
  /\ opened' = NoOutcome /\ UNCHANGED <<platform, installed, cache, asker>>

LauncherNext ==
  \/ \E a \in Askers : ScanReads(a) \/ ScanEnds(a) \/ AsksToOpen(a)
  \/ Installs \/ Uninstalls \/ LaunchTimePasses

LauncherSpec == LauncherInit /\ [][LauncherNext]_launcherVars

-----------------------------------------------------------------------------
(* Properties *)

\* What is opened was installed not longer ago than a list is kept (and its scan took to hand it over),
\* fits the user's words as well as anything listed, and is not one of several that fit
\* partly and about as well: those come back as a question.
OpensWhatFits ==
  opened.kind \in {"launched", "failed"} =>
    /\ launchTime - lastThere[opened.app] < CacheTtl + (cache.at - cache.read)
    /\ \A b \in cache.apps : ScoreOf[opened.query][b] <= ScoreOf[opened.query][opened.app]
    /\ ScoreOf[opened.query][opened.app] < 80 =>
         \A b \in cache.apps \ {opened.app} :
           \/ ScoreOf[opened.query][b] = 0
           \/ ScoreOf[opened.query][opened.app] - ScoreOf[opened.query][b] >= 30
=============================================================================
