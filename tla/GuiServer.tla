----------------------------- MODULE GuiServer ------------------------------
(***************************************************************************)
(* `sec gui`: the local web server (gui.go, gui_routes.go, gui_auth.go,    *)
(* gui_ws.go) and the page it serves (the script in gui.go).  A server is  *)
(* started with a launch token that one browser may turn into a cookie;    *)
(* its API answers one tab at a time; the page asks for the status of a    *)
(* profile, then for its secrets, and the user may pick another profile    *)
(* while answers are on their way.                                         *)
(*                                                                         *)
(* The daemon's sessions (DaemonSession) end and are opened by other        *)
(* clients between any two requests: here it just answers or refuses.      *)
(***************************************************************************)
EXTENDS Integers, FiniteSets

CONSTANTS
  Server,   \* launches of `sec gui`
  Browser,
  Tab,      \* tabs, that is, values of sec_tab_id in a sessionStorage
  In,       \* In[t] is the browser of tab t
  Profile,
  Home,     \* the profile the page starts with
  Picks,    \* bound: Picks[t], the profiles the user of t may pick
  MaxFlight,\* bound: the requests on their way
  None

ASSUME GuiAssumption ==
  /\ In \in [Tab -> Browser]
  /\ Home \in Profile
  /\ Picks \in [Tab -> SUBSET Profile]
  /\ MaxFlight \in Nat \ {0}
  /\ None \notin Server \cup Tab \cup Profile

VARIABLES
  launch,    \* "new", "binding", "serving", "ending", "failed" or "gone"
  consumed,  \* guiTokenConsumed of the serving process
  lock,      \* activeTabID
  beat,      \* lastTabHeartbeat: "fresh", or "late" by more than 6 s
  cookie,    \* sec_gui_auth in each browser: the launch it belongs to
  page,      \* "loaded", "replaced" (blocked or stopped), or "closed"
  current,   \* currentProfile
  name,      \* activeProfileName, the profile the page says it shows
  shows,     \* the profile secretsData came from
  pill,      \* statusPill: "open" (Active Session), or "locked"
  flight,    \* the page's requests that are not answered yet
  crossed,   \* history: the profile changed while secrets were on their way
  lapsed     \* history: a page was there when the lock was taken from its tab

serverVars == <<launch, consumed>>
lockVars   == <<lock, beat, lapsed>>
pageVars   == <<page, current, name, shows, pill, crossed>>
vars == <<serverVars, lockVars, cookie, pageVars, flight>>

Kind   == {"status", "secrets", "unlock"}
Request == [tab : Tab, kind : Kind, profile : Profile]

Up(s)   == launch[s] \in {"serving", "ending"}
Serving == IF \E s \in Server : Up(s) THEN CHOOSE s \in Server : Up(s) ELSE None

Ask(t, k, p) == [tab |-> t, kind |-> k, profile |-> p]
Of(t) == {r \in flight : r.tab = t}
Room(requests) == Cardinality(requests) < MaxFlight

\* Nothing has happened yet but launches.
Rest ==
  /\ consumed = FALSE
  /\ lock = None /\ beat = "fresh" /\ lapsed = FALSE
  /\ cookie = [b \in Browser |-> None]
  /\ page = [t \in Tab |-> "closed"]
  /\ current = [t \in Tab |-> Home] /\ name = [t \in Tab |-> None]
  /\ shows = [t \in Tab |-> None] /\ pill = [t \in Tab |-> "locked"]
  /\ flight = {} /\ crossed = [t \in Tab |-> FALSE]

Init == launch = [s \in Server |-> "new"] /\ Rest

-----------------------------------------------------------------------------
(* The server process.                                                     *)

\* securityMiddleware refuses an API request without the launch token.
Forbidden(c) == c = None \/ c # Serving

\* runGUIServer first posts /api/shutdown, with no token, to whatever server
\* runs, waits 200 ms, and draws its own launch token.
KillExisting(s) ==
  /\ launch[s] = "new"
  /\ launch' = [r \in Server |->
       IF r = s THEN "binding"
       ELSE IF launch[r] = "serving" /\ ~Forbidden(None) THEN "ending"
       ELSE launch[r]]
  /\ UNCHANGED <<consumed, lockVars, cookie, pageVars, flight>>

\* ListenAndServe; it returns at once if the port is taken.
Listen(s) ==
  /\ launch[s] = "binding"
  /\ IF Serving # None
       THEN /\ launch' = [launch EXCEPT ![s] = "failed"]
            /\ UNCHANGED <<consumed, lockVars>>
       ELSE /\ launch' = [launch EXCEPT ![s] = "serving"]
            /\ consumed' = FALSE
            /\ lock' = None /\ beat' = "fresh"
            /\ lapsed' = (lapsed \/ \E t \in Tab : page[t] = "loaded")
  /\ UNCHANGED <<cookie, pageVars, flight>>

\* os.Exit, 200 ms after /api/shutdown or on a signal.
ServerExits(s) ==
  /\ Up(s)
  /\ launch' = [launch EXCEPT ![s] = "gone"]
  /\ UNCHANGED <<consumed, lockVars, cookie, pageVars, flight>>

\* Mutant of Claimed: a tab that asks has the lock, whoever holds it.
ClaimedAlways(t) == TRUE

\* The tab lock of securityMiddleware: is tab t, which asks, the active tab
\* or may it become it?
Claimed(t) == lock \in {None, t} \/ beat = "late"

\* What the middleware does with an API request of tab t.
Pass(t) == ~Forbidden(cookie[In[t]]) /\ Claimed(t)

\* Mutant of Claim: the lock takes the launch token for the tab.
ClaimToken(t) ==
  IF Pass(t) THEN lock' = Serving /\ beat' = "fresh" /\ UNCHANGED lapsed
             ELSE UNCHANGED lockVars

Claim(t) ==
  IF Pass(t) THEN lock' = t /\ beat' = "fresh" /\ UNCHANGED lapsed
             ELSE UNCHANGED lockVars

\* What the page may hear.  The daemon answers the token the server keeps
\* or not (handleApiStatus, handleApiSecrets); ensureUnlocked makes it
\* answer, unless the user cancels (handleApiUnlock).
Answers(t) ==
  IF Serving = None THEN {"error"}
  ELSE IF Forbidden(cookie[In[t]]) THEN {"forbidden"}
  ELSE IF ~Claimed(t) THEN {"tablock"}
  ELSE {"open", "locked"}

\* Six seconds without a request of the active tab: a suspended or closed
\* tab, or a page whose timers the browser throttles.
HeartbeatLate ==
  /\ lock # None /\ beat = "fresh"
  /\ beat' = "late"
  /\ lapsed' = (lapsed \/ page[lock] # "closed")
  /\ UNCHANGED <<serverVars, lock, cookie, pageVars, flight>>

-----------------------------------------------------------------------------
(* The page.                                                               *)

\* The script starts with the home profile and nothing shown, and calls
\* loadStatus.
Start(t) ==
  /\ page' = [page EXCEPT ![t] = "loaded"]
  /\ current' = [current EXCEPT ![t] = Home]
  /\ name' = [name EXCEPT ![t] = None]
  /\ shows' = [shows EXCEPT ![t] = None]
  /\ pill' = [pill EXCEPT ![t] = "locked"]
  /\ crossed' = [crossed EXCEPT ![t] = FALSE]
  /\ flight' = (flight \ Of(t)) \cup {Ask(t, "status", Home)}

\* The document is gone, with what it showed and what it waited for.
Leave(t, state) ==
  /\ page' = [page EXCEPT ![t] = state]
  /\ current' = [current EXCEPT ![t] = Home]
  /\ name' = [name EXCEPT ![t] = None]
  /\ shows' = [shows EXCEPT ![t] = None]
  /\ pill' = [pill EXCEPT ![t] = "locked"]
  /\ crossed' = [crossed EXCEPT ![t] = FALSE]
  /\ flight' = flight \ Of(t)

\* Mutant of TokenGood: the launch token may be used again.
TokenGoodAgain == Serving # None

\* The launch token is accepted once.
TokenGood == Serving # None /\ ~consumed

\* A tab loads the launch URL, opened by runGUIServer or pasted.
LoadLaunchURL(t) ==
  /\ Serving # None /\ Room(flight \ Of(t))
  /\ IF TokenGood
       THEN /\ consumed' = TRUE
            /\ cookie' = [cookie EXCEPT ![In[t]] = Serving]
            /\ Start(t)
       ELSE Leave(t, "closed") /\ UNCHANGED <<consumed, cookie>>
  /\ UNCHANGED <<launch, lockVars>>

\* The same in a browser whose tabs are not followed.
LoadElsewhere(b) ==
  /\ \A t \in Tab : In[t] # b
  /\ TokenGood
  /\ consumed' = TRUE
  /\ cookie' = [cookie EXCEPT ![b] = Serving]
  /\ UNCHANGED <<launch, lockVars, pageVars, flight>>

\* A tab loads the address without the token, or reloads.
LoadPage(t) ==
  /\ Serving # None /\ Room(flight \ Of(t))
  /\ IF Forbidden(cookie[In[t]]) THEN Leave(t, "closed") ELSE Start(t)
  /\ UNCHANGED <<serverVars, lockVars, cookie>>

CloseTab(t) ==
  /\ page[t] # "closed"
  /\ Leave(t, "closed")
  /\ UNCHANGED <<serverVars, lockVars, cookie>>

\* renderLockedState: the pill turns; the cards of the default view and
\* secretsData stay as they are.
RenderLocked(t) ==
  /\ pill' = [pill EXCEPT ![t] = "locked"]
  /\ UNCHANGED <<page, current, shows, crossed>>

\* renderTabLockedState: the body is replaced, the timers go on.
RenderBlocked(t) == Leave(t, "replaced")

\* The rest of loadStatus, once the status is there.
StatusArrives(r, answer) ==
  LET t == r.tab
  IN  /\ r.kind = "status"
      /\ \/ /\ answer = "forbidden"
            /\ flight' = flight \ {r} /\ UNCHANGED pageVars
         \/ /\ answer = "error"
            /\ flight' = flight \ {r}
            /\ RenderLocked(t) /\ UNCHANGED name
         \/ /\ answer = "locked"
            /\ flight' = flight \ {r}
            /\ RenderLocked(t)
            /\ name' = [name EXCEPT ![t] = current[t]]
         \/ /\ answer = "open"
            /\ flight' = (flight \ {r}) \cup {Ask(t, "secrets", current[t])}
            /\ name' = [name EXCEPT ![t] = current[t]]
            /\ UNCHANGED <<page, current, shows, pill, crossed>>

\* Mutant of SecretsArrive: a refused request leaves the pill as it is.
SecretsArriveQuietly(r, answer) ==
  /\ r.kind = "secrets" /\ answer # "tablock"
  /\ flight' = flight \ {r}
  /\ IF answer = "open"
       THEN /\ shows' = [shows EXCEPT ![r.tab] = r.profile]
            /\ pill' = [pill EXCEPT ![r.tab] = "open"]
            /\ UNCHANGED <<page, current, name, crossed>>
       ELSE UNCHANGED pageVars

\* The rest of loadSecrets and of the loadStatus that waits for it.
SecretsArrive(r, answer) ==
  LET t == r.tab
      others == {q \in Of(t) : q.kind = "secrets"} \ {r}
  IN  /\ r.kind = "secrets"
      /\ flight' = flight \ {r}
      /\ \/ /\ answer = "open"
            /\ shows' = [shows EXCEPT ![t] = r.profile]
            /\ pill' = [pill EXCEPT ![t] = "open"]
            /\ crossed' = [crossed EXCEPT ![t] =
                 @ /\ (others # {} \/ r.profile # name[t])]
            /\ UNCHANGED <<page, current, name>>
         \/ /\ answer \in {"locked", "forbidden", "error"}
            /\ RenderLocked(t) /\ UNCHANGED name

\* The rest of triggerUnlock: it loads the status again, whatever came.
UnlockArrives(r, answer) ==
  /\ r.kind = "unlock"
  /\ flight' = (flight \ {r}) \cup
       (IF answer \in {"open", "locked"}
        THEN {Ask(r.tab, "status", current[r.tab])} ELSE {})
  /\ answer # "tablock"
  /\ UNCHANGED pageVars

\* A request is handled and its answer reaches the page; apiFetch looks for
\* the refusal of the tab lock first.  Answers overtake one another.
Answer(r) ==
  /\ r \in flight
  /\ Claim(r.tab)
  /\ \E answer \in Answers(r.tab) :
       \/ answer = "tablock" /\ RenderBlocked(r.tab)
       \/ StatusArrives(r, answer)
       \/ SecretsArrive(r, answer)
       \/ UnlockArrives(r, answer)
  /\ UNCHANGED <<serverVars, cookie>>

\* changeProfile.
ChangeProfile(t, p) ==
  /\ page[t] = "loaded" /\ p # current[t] /\ Room(flight)
  /\ current' = [current EXCEPT ![t] = p]
  /\ crossed' = [crossed EXCEPT ![t] =
       @ \/ \E r \in Of(t) : r.kind = "secrets"]
  /\ flight' = flight \cup {Ask(t, "status", p)}
  /\ UNCHANGED <<serverVars, lockVars, cookie, page, name, shows, pill>>

\* triggerUnlock; the button is hidden while the pill is green.
TriggerUnlock(t) ==
  /\ page[t] = "loaded" /\ pill[t] # "open" /\ Room(flight)
  /\ flight' = flight \cup {Ask(t, "unlock", current[t])}
  /\ UNCHANGED <<serverVars, lockVars, cookie, pageVars>>

\* stopServer: the page is replaced whether the server heard of it or not.
StopServer(t) ==
  /\ page[t] = "loaded"
  /\ Claim(t)
  /\ launch' = [s \in Server |->
       IF s = Serving /\ Pass(t) THEN "ending" ELSE launch[s]]
  /\ Leave(t, "replaced")
  /\ UNCHANGED <<consumed, cookie>>

\* Mutant of Heartbeat: the page does not look at the answer.
HeartbeatBlind(t) ==
  /\ page[t] # "closed"
  /\ Claim(t)
  /\ UNCHANGED <<serverVars, cookie, pageVars, flight>>

\* The interval timer of the page, every 2 s; it survives the replacement of
\* the page's body.
Heartbeat(t) ==
  /\ page[t] # "closed"
  /\ Claim(t)
  /\ IF Answers(t) = {"tablock"}
       THEN RenderBlocked(t) ELSE UNCHANGED <<pageVars, flight>>
  /\ UNCHANGED <<serverVars, cookie>>

\* Five minutes without mouse or keyboard.
IdleLock(t) ==
  /\ page[t] = "loaded"
  /\ RenderLocked(t)
  /\ UNCHANGED <<serverVars, lockVars, cookie, name, flight>>

-----------------------------------------------------------------------------

Next ==
  \/ \E s \in Server : KillExisting(s) \/ Listen(s) \/ ServerExits(s)
  \/ \E t \in Tab : LoadLaunchURL(t) \/ LoadPage(t) \/ CloseTab(t)
  \/ \E t \in Tab : TriggerUnlock(t) \/ StopServer(t) \/ Heartbeat(t) \/ IdleLock(t)
  \/ \E t \in Tab : \E p \in Picks[t] : ChangeProfile(t, p)
  \/ \E r \in flight : Answer(r)
  \/ \E b \in Browser : LoadElsewhere(b)
  \/ HeartbeatLate

\* The interval timer of a page that is there runs.
Fairness == \A t \in Tab : WF_vars(Heartbeat(t))
Spec == Init /\ [][Next]_vars /\ Fairness

-----------------------------------------------------------------------------
(* Properties.                                                             *)

TypeOK ==
  /\ launch \in [Server ->
       {"new", "binding", "serving", "ending", "failed", "gone"}]
  /\ consumed \in BOOLEAN /\ lapsed \in BOOLEAN
  /\ lock \in Tab \cup {None} /\ beat \in {"fresh", "late"}
  /\ cookie \in [Browser -> Server \cup {None}]
  /\ page \in [Tab -> {"closed", "loaded", "replaced"}]
  /\ current \in [Tab -> Profile]
  /\ name \in [Tab -> Profile \cup {None}]
  /\ shows \in [Tab -> Profile \cup {None}]
  /\ pill \in [Tab -> {"open", "locked"}]
  /\ flight \subseteq Request
  /\ crossed \in [Tab -> BOOLEAN]
  /\ Cardinality(flight) <= MaxFlight

\* A launch belongs to one browser: the cookie of a serving process is in one
\* browser at most, however often its URL is loaded (gui_routes.go:110-118).
OneBrowser ==
  \A a, b \in Browser :
    cookie[a] = cookie[b] /\ cookie[a] = Serving /\ Serving # None => a = b

\* A page whose pill says "Active Session" and that waits for nothing shows
\* the secrets of the profile it names, unless the profile was changed while
\* secrets were on their way (gui.go:738-846).
PillTrue ==
  \A t \in Tab :
    page[t] = "loaded" /\ pill[t] = "open" /\ Of(t) = {} /\ ~crossed[t]
      => shows[t] = name[t]

\* Two tabs never show secrets side by side, unless the first was silent for
\* 6 s or the server was started anew (gui_routes.go:88-106).
OneTab ==
  ~lapsed => \A t, u \in Tab : shows[t] # None /\ shows[u] # None => t = u

\* A tab that another one displaced finds out, and hides what it shows, or
\* is the active tab again, while its server lives (gui.go:716-737).
Displaced(t) ==
  /\ page[t] = "loaded" /\ lock \notin {t, None}
  /\ ~Forbidden(cookie[In[t]])

DisplacedLearns == \A t \in Tab : Displaced(t) ~> ~Displaced(t)

\* What README.md promises of the request sent before a launch: it clears
\* the server that was running, so that no launch fails.
LaunchServes == \A s \in Server : launch[s] # "failed"
=============================================================================
