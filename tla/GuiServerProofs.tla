-------------------------- MODULE GuiServerProofs --------------------------
(***************************************************************************)
(* What GuiServer keeps for any number of launches, browsers, tabs and     *)
(* profiles, however the answers overtake one another.  The invariant has  *)
(* three parts beside the types: who has the cookie of the process that    *)
(* serves, who holds the tab lock while secrets are shown, and which       *)
(* profile the secrets that are shown, or on their way, belong to.         *)
(***************************************************************************)
EXTENDS GuiServer, TLAPS, FiniteSetTheorems

-----------------------------------------------------------------------------
(* Cookies.                                                                *)

Launches ==
  /\ launch \in [Server -> {"new", "binding", "serving", "ending", "failed", "gone"}]
  /\ cookie \in [Browser -> Server \cup {None}] /\ consumed \in BOOLEAN

\* The port has one owner.
UpOne == \A s, u \in Server : Up(s) /\ Up(u) => s = u

\* A launch has to serve before a browser has its cookie, and is not used
\* until its token is consumed.
Served == \A b \in Browser : cookie[b] # None => launch[cookie[b]] \notin {"new", "binding"}
Unused == ~consumed => \A b \in Browser : cookie[b] = None \/ ~Up(cookie[b])
Alone  == \A a, b \in Browser : cookie[a] = cookie[b] /\ cookie[a] # None /\ Up(cookie[a]) => a = b

CookiesOK == Launches /\ UpOne /\ Served /\ Unused /\ Alone

LEMMA ServingUp ==
  /\ Serving # None => Serving \in Server /\ Up(Serving)
  /\ \A s \in Server : Up(s) => Serving # None
BY GuiAssumption DEF Serving

\* What neither starts nor ends a process, and gives nobody a cookie.
LEMMA CookiesStay ==
  ASSUME CookiesOK, launch' \in [Server -> {"new", "binding", "serving", "ending", "failed", "gone"}],
         \A s \in Server : Up(s)' = Up(s),
         \A s \in Server : launch[s] \notin {"new", "binding"} => launch'[s] \notin {"new", "binding"},
         UNCHANGED <<cookie, consumed>>
  PROVE  CookiesOK'
<1>1. Launches' BY DEF CookiesOK, Launches
<1>2. UpOne' BY DEF CookiesOK, UpOne
<1>3. \A b \in Browser : cookie'[b] # None => cookie'[b] \in Server /\ cookie[b] = cookie'[b]
  BY DEF CookiesOK, Launches
<1>4. Served' /\ Unused' /\ Alone' BY <1>3 DEF CookiesOK, Served, Unused, Alone
<1> QED BY <1>1, <1>2, <1>4 DEF CookiesOK

LEMMA SameCookies ==
  ASSUME CookiesOK, UNCHANGED <<launch, cookie, consumed>>
  PROVE  CookiesOK'
BY DEF CookiesOK, Launches, UpOne, Served, Unused, Alone, Up

LEMMA LaunchesKeep ==
  ASSUME CookiesOK, NEW s \in Server, KillExisting(s) \/ Listen(s) \/ ServerExits(s)
  PROVE  CookiesOK'
<1>1. CASE KillExisting(s)
  <2>1. /\ launch[s] = "new" /\ UNCHANGED <<cookie, consumed>>
        /\ launch' = [r \in Server |-> IF r = s THEN "binding" ELSE launch[r]]
    BY <1>1 DEF KillExisting, Forbidden
  <2>2. \A r \in Server : Up(r)' = Up(r) BY <2>1 DEF Up
  <2>3. launch' \in [Server -> {"new", "binding", "serving", "ending", "failed", "gone"}]
    BY <2>1 DEF CookiesOK, Launches
  <2> QED BY <2>1, <2>2, <2>3, CookiesStay
<1>2. CASE Listen(s) /\ Serving # None
  <2>1. /\ launch[s] = "binding" /\ UNCHANGED <<cookie, consumed>>
        /\ launch' = [launch EXCEPT ![s] = "failed"]
    BY <1>2 DEF Listen
  <2>2. \A r \in Server : Up(r)' = Up(r) BY <2>1 DEF Up, CookiesOK, Launches
  <2>3. launch' \in [Server -> {"new", "binding", "serving", "ending", "failed", "gone"}]
    BY <2>1 DEF CookiesOK, Launches
  <2> QED BY <2>1, <2>2, <2>3, CookiesStay DEF CookiesOK, Launches
<1>3. CASE Listen(s) /\ Serving = None
  <2>1. /\ launch[s] = "binding" /\ launch' = [launch EXCEPT ![s] = "serving"]
        /\ consumed' = FALSE /\ UNCHANGED cookie
    BY <1>3 DEF Listen
  <2>2. \A r \in Server : ~Up(r) BY <1>3, ServingUp
  <2>3. \A b \in Browser : cookie[b] # None => cookie[b] # s /\ cookie[b] \in Server
    BY <2>1 DEF CookiesOK, Launches, Served
  <2>4. Launches' BY <2>1 DEF CookiesOK, Launches
  <2>5. \A r \in Server : r # s => ~Up(r)' BY <2>1, <2>2 DEF CookiesOK, Launches, Up
  <2>6. UpOne' /\ Unused' /\ Alone' BY <2>1, <2>3, <2>5 DEF UpOne, Unused, Alone
  <2>7. Served' BY <2>1, <2>3 DEF CookiesOK, Launches, Served
  <2> QED BY <2>4, <2>6, <2>7 DEF CookiesOK
<1>4. CASE ServerExits(s)
  <2>1. /\ Up(s) /\ launch' = [launch EXCEPT ![s] = "gone"] /\ UNCHANGED <<cookie, consumed>>
    BY <1>4 DEF ServerExits
  <2>2. \A r \in Server : ~Up(r)' BY <2>1 DEF CookiesOK, Launches, UpOne, Up
  <2>3. Launches' BY <2>1 DEF CookiesOK, Launches
  <2>4. UpOne' /\ Unused' /\ Alone' BY <2>2, <2>3 DEF UpOne, Unused, Alone, Launches
  <2>5. Served' BY <2>1 DEF CookiesOK, Launches, Served
  <2> QED BY <2>3, <2>4, <2>5 DEF CookiesOK
<1> QED BY <1>1, <1>2, <1>3, <1>4

\* The launch token goes to one browser.
LEMMA TokenKeeps ==
  ASSUME CookiesOK, NEW b \in Browser, TokenGood, consumed' = TRUE,
         cookie' = [cookie EXCEPT ![b] = Serving], UNCHANGED launch
  PROVE  CookiesOK'
<1>1. Serving \in Server /\ Up(Serving) BY ServingUp DEF TokenGood
<1>2. \A a \in Browser : cookie[a] # Serving
  BY <1>1, GuiAssumption DEF TokenGood, CookiesOK, Unused
<1> DEFINE s == Serving
<1>3. s \in Server /\ launch[s] \in {"serving", "ending"} /\ cookie' = [cookie EXCEPT ![b] = s]
  BY <1>1 DEF Up
<1>4. \A a \in Browser : cookie[a] # s BY <1>2
<1> HIDE DEF s
<1>5. Launches' BY <1>3 DEF CookiesOK, Launches
<1>6. UpOne' BY DEF CookiesOK, UpOne, Up
<1>7. \A a \in Browser : cookie'[a] = IF a = b THEN s ELSE cookie[a]
  BY <1>3 DEF CookiesOK, Launches
<1>8. Served' BY <1>3, <1>7 DEF CookiesOK, Served
<1>9. Unused' BY DEF Unused
<1>10. Alone' BY <1>4, <1>7 DEF CookiesOK, Alone, Up
<1> QED BY <1>5, <1>6, <1>8, <1>9, <1>10 DEF CookiesOK

LEMMA StopServerCookies ==
  ASSUME CookiesOK, NEW t \in Tab, StopServer(t)
  PROVE  CookiesOK'
<1>1. /\ launch' = [s \in Server |-> IF s = Serving /\ Pass(t) THEN "ending" ELSE launch[s]]
      /\ UNCHANGED <<cookie, consumed>>
  BY DEF StopServer
<1>2. Serving \in Server => Up(Serving) BY ServingUp, GuiAssumption
<1>3. \A s \in Server : Up(s)' = Up(s) BY <1>1, <1>2 DEF Up
<1>4. launch' \in [Server -> {"new", "binding", "serving", "ending", "failed", "gone"}]
  BY <1>1 DEF CookiesOK, Launches
<1>5. \A s \in Server : launch[s] \notin {"new", "binding"} => launch'[s] \notin {"new", "binding"}
  BY <1>1
<1> QED BY <1>1, <1>3, <1>4, <1>5, CookiesStay

LEMMA CookiesKeep == CookiesOK /\ [Next]_vars => CookiesOK'
<1> SUFFICES ASSUME CookiesOK, [Next]_vars PROVE CookiesOK' OBVIOUS
<1>1. ASSUME NEW s \in Server, KillExisting(s) \/ Listen(s) \/ ServerExits(s) PROVE CookiesOK'
  BY <1>1, LaunchesKeep
<1>2. ASSUME NEW t \in Tab, LoadLaunchURL(t) PROVE CookiesOK'
  <2>1. In[t] \in Browser BY GuiAssumption
  <2>2. CASE TokenGood BY <1>2, <2>1, <2>2, TokenKeeps DEF LoadLaunchURL
  <2>3. CASE ~TokenGood BY <1>2, <2>3, SameCookies DEF LoadLaunchURL
  <2> QED BY <2>2, <2>3
<1>3. ASSUME NEW b \in Browser, LoadElsewhere(b) PROVE CookiesOK'
  BY <1>3, TokenKeeps DEF LoadElsewhere
<1>4. ASSUME NEW t \in Tab, StopServer(t) PROVE CookiesOK' BY <1>4, StopServerCookies
<1>5. ASSUME NEW t \in Tab,
             \/ LoadPage(t) \/ CloseTab(t) \/ TriggerUnlock(t) \/ Heartbeat(t) \/ IdleLock(t)
             \/ \E p \in Picks[t] : ChangeProfile(t, p)
      PROVE  CookiesOK'
  <2>1. UNCHANGED <<launch, cookie, consumed>>
    BY <1>5 DEF LoadPage, CloseTab, TriggerUnlock, Heartbeat, IdleLock, ChangeProfile, serverVars
  <2> QED BY <2>1, SameCookies
<1>6. ASSUME HeartbeatLate \/ UNCHANGED vars \/ \E r \in flight : Answer(r) PROVE CookiesOK'
  <2>1. UNCHANGED <<launch, cookie, consumed>> BY <1>6 DEF HeartbeatLate, Answer, vars, serverVars
  <2> QED BY <2>1, SameCookies
<1> QED BY <1>1, <1>2, <1>3, <1>4, <1>5, <1>6 DEF Next

-----------------------------------------------------------------------------
(* Pages.                                                                  *)

PagesTyped ==
  /\ page \in [Tab -> {"closed", "loaded", "replaced"}]
  /\ current \in [Tab -> Profile] /\ name \in [Tab -> Profile \cup {None}]
  /\ shows \in [Tab -> Profile \cup {None}] /\ pill \in [Tab -> {"open", "locked"}]
  /\ crossed \in [Tab -> BOOLEAN] /\ flight \subseteq Request
  /\ lock \in Tab \cup {None} /\ beat \in {"fresh", "late"} /\ lapsed \in BOOLEAN

Secrets(r, t) == r.tab = t /\ r.kind = "secrets"

\* Until the profile changes under them, secrets on their way are those of
\* the profile the page names; once they are there, it shows them.
TabOK(t) ==
  /\ shows[t] # None \/ (\E r \in flight : r.tab = t) => page[t] = "loaded"
  /\ ~crossed[t] =>
       /\ \A r \in flight : Secrets(r, t) => r.profile = current[t] /\ name[t] = current[t]
       /\ pill[t] = "open" /\ (\A r \in flight : ~Secrets(r, t)) => shows[t] = name[t]

\* Who shows secrets has the lock, and was heard of.
Holder == ~lapsed => \A t \in Tab : shows[t] # None => lock = t /\ beat = "fresh"

PagesOK == PagesTyped /\ Holder /\ \A t \in Tab : TabOK(t)

\* A step of one tab.
Only(t) ==
  /\ \A u \in Tab \ {t} :
       /\ page'[u] = page[u] /\ current'[u] = current[u] /\ name'[u] = name[u]
       /\ shows'[u] = shows[u] /\ pill'[u] = pill[u] /\ crossed'[u] = crossed[u]
  /\ \A r : r.tab # t => (r \in flight' <=> r \in flight)

LEMMA OneTabMoves ==
  ASSUME PagesOK, PagesTyped', Holder', NEW t \in Tab, Only(t), TabOK(t)'
  PROVE  PagesOK'
<1>1. ASSUME NEW u \in Tab \ {t} PROVE TabOK(u)'
  <2>1. TabOK(u) BY DEF PagesOK
  <2>2. \A r : r.tab = u => (r \in flight' <=> r \in flight) BY DEF Only
  <2>3. /\ page'[u] = page[u] /\ current'[u] = current[u] /\ name'[u] = name[u]
        /\ shows'[u] = shows[u] /\ pill'[u] = pill[u] /\ crossed'[u] = crossed[u]
    BY DEF Only
  <2> QED BY <2>1, <2>2, <2>3 DEF TabOK, Secrets
<1> QED BY <1>1 DEF PagesOK

\* Who asks gets the lock only from a tab that shows nothing, as long as
\* nobody was silent.
LEMMA HolderKeeps ==
  ASSUME PagesTyped, Holder, NEW t \in Tab, Claim(t) \/ UNCHANGED lockVars,
         \A u \in Tab : shows'[u] # None => shows[u] # None
  PROVE  Holder' /\ lock' \in Tab \cup {None} /\ beat' \in {"fresh", "late"} /\ lapsed' \in BOOLEAN
<1>1. Claim(t) => UNCHANGED lockVars
                  \/ (lock' = t /\ beat' = "fresh" /\ UNCHANGED lapsed /\ Claimed(t))
  BY DEF Claim, Pass
<1>2. CASE UNCHANGED lockVars BY <1>2 DEF PagesTyped, Holder, lockVars
<1>3. CASE lock' = t /\ beat' = "fresh" /\ UNCHANGED lapsed /\ Claimed(t)
  BY <1>3, GuiAssumption DEF PagesTyped, Holder, Claimed
<1> QED BY <1>1, <1>2, <1>3

LEMMA StartKeeps ==
  ASSUME PagesOK, NEW t \in Tab, Start(t), Claim(t) \/ UNCHANGED lockVars
  PROVE  PagesOK'
<1> DEFINE r == Ask(t, "status", Home)
<1>1. /\ page' = [page EXCEPT ![t] = "loaded"] /\ current' = [current EXCEPT ![t] = Home]
      /\ name' = [name EXCEPT ![t] = None] /\ shows' = [shows EXCEPT ![t] = None]
      /\ pill' = [pill EXCEPT ![t] = "locked"] /\ crossed' = [crossed EXCEPT ![t] = FALSE]
      /\ flight' = (flight \ Of(t)) \cup {r}
  BY DEF Start
<1>2. r \in Request /\ r.tab = t /\ r.kind = "status"
  BY GuiAssumption DEF Ask, Request, Kind
<1> HIDE DEF r
<1>3. \A u \in Tab : shows'[u] # None => shows[u] # None
  BY <1>1 DEF PagesOK, PagesTyped
<1>4. Holder' /\ PagesTyped'
  BY <1>1, <1>2, <1>3, HolderKeeps, GuiAssumption DEF PagesOK, PagesTyped
<1>5. Only(t) BY <1>1, <1>2 DEF Only, Of, PagesOK, PagesTyped
<1>6. TabOK(t)' BY <1>1, <1>2 DEF TabOK, Secrets, Of, PagesOK, PagesTyped
<1> QED BY <1>4, <1>5, <1>6, OneTabMoves

LEMMA LeaveKeeps ==
  ASSUME PagesOK, NEW t \in Tab, NEW state \in {"closed", "replaced"}, Leave(t, state),
         Claim(t) \/ UNCHANGED lockVars
  PROVE  PagesOK'
<1>1. /\ page' = [page EXCEPT ![t] = state] /\ current' = [current EXCEPT ![t] = Home]
      /\ name' = [name EXCEPT ![t] = None] /\ shows' = [shows EXCEPT ![t] = None]
      /\ pill' = [pill EXCEPT ![t] = "locked"] /\ crossed' = [crossed EXCEPT ![t] = FALSE]
      /\ flight' = flight \ Of(t)
  BY DEF Leave
<1>2. \A u \in Tab : shows'[u] # None => shows[u] # None
  BY <1>1 DEF PagesOK, PagesTyped
<1>3. Holder' /\ PagesTyped'
  BY <1>1, <1>2, HolderKeeps, GuiAssumption DEF PagesOK, PagesTyped
<1>4. Only(t) BY <1>1 DEF Only, Of, PagesOK, PagesTyped
<1>5. TabOK(t)' BY <1>1 DEF TabOK, Secrets, Of, PagesOK, PagesTyped
<1> QED BY <1>3, <1>4, <1>5, OneTabMoves

LEMMA SamePages ==
  ASSUME PagesOK, NEW t \in Tab, UNCHANGED <<pageVars, flight>>, Claim(t) \/ UNCHANGED lockVars
  PROVE  PagesOK'
<1>1. UNCHANGED <<page, current, name, shows, pill, crossed, flight>> BY DEF pageVars
<1>2. Holder' /\ PagesTyped' BY <1>1, HolderKeeps DEF PagesOK, PagesTyped
<1>3. \A u \in Tab : TabOK(u)' BY <1>1 DEF PagesOK, TabOK
<1> QED BY <1>2, <1>3 DEF PagesOK

-----------------------------------------------------------------------------
(* Answers.                                                                *)

LEMMA Waits ==
  ASSUME PagesOK, NEW r \in flight
  PROVE  /\ r.tab \in Tab /\ r.kind \in Kind /\ r.profile \in Profile
         /\ page[r.tab] = "loaded" /\ current[r.tab] \in Profile /\ TabOK(r.tab)
<1>1. r \in Request BY DEF PagesOK, PagesTyped
<1>2. r.tab \in Tab /\ r.kind \in Kind /\ r.profile \in Profile BY <1>1 DEF Request
<1>3. TabOK(r.tab) BY <1>2 DEF PagesOK
<1> QED BY <1>2, <1>3 DEF TabOK, PagesOK, PagesTyped

\* What a status or an unlock leaves: fewer requests, or one more.
LEMMA StatusKeeps ==
  ASSUME PagesOK, NEW r \in flight, NEW answer, StatusArrives(r, answer), Claim(r.tab)
  PROVE  PagesOK'
<1> DEFINE t == r.tab
           q == Ask(t, "secrets", current[t])
<1>1. /\ t \in Tab /\ page[t] = "loaded" /\ current[t] \in Profile /\ r.kind = "status"
      /\ q \in Request /\ q.tab = t /\ q.profile = current[t] /\ q.kind = "secrets"
  BY Waits DEF Ask, Request, Kind, StatusArrives
<1>2. PagesTyped /\ Holder /\ TabOK(t) BY <1>1 DEF PagesOK
<1>3. UNCHANGED <<page, current, shows, crossed>>
  BY DEF StatusArrives, RenderLocked, pageVars
<1>4. Holder' /\ lock' \in Tab \cup {None} /\ beat' \in {"fresh", "late"} /\ lapsed' \in BOOLEAN
  BY <1>1, <1>2, <1>3, HolderKeeps
<1>5. CASE flight' = flight \ {r} /\ UNCHANGED pageVars
  <2>1. UNCHANGED <<name, pill>> BY <1>5 DEF pageVars
  <2>2. PagesTyped' BY <1>2, <1>3, <1>4, <1>5, <2>1 DEF PagesTyped
  <2>3. Only(t) BY <1>3, <1>5, <2>1 DEF Only
  <2>4. TabOK(t)'
    <3> HIDE DEF t
    <3> QED BY <1>1, <1>2, <1>3, <1>5, <2>1 DEF TabOK, Secrets
  <2> QED BY <1>1, <1>4, <2>2, <2>3, <2>4, OneTabMoves
<1>6. CASE /\ flight' = flight \ {r} /\ RenderLocked(t)
           /\ name' \in {name, [name EXCEPT ![t] = current[t]]}
  <2>1. pill' = [pill EXCEPT ![t] = "locked"] BY <1>6 DEF RenderLocked
  <2> HIDE DEF t
  <2>2. PagesTyped' BY <1>1, <1>2, <1>3, <1>4, <1>6, <2>1 DEF PagesTyped
  <2>3. Only(t) BY <1>2, <1>1, <1>3, <1>6, <2>1 DEF Only, PagesTyped, t
  <2>4. TabOK(t)' BY <1>1, <1>2, <1>3, <1>6, <2>1 DEF TabOK, Secrets, PagesTyped
  <2> QED BY <1>1, <1>4, <2>2, <2>3, <2>4, OneTabMoves
<1>7. CASE /\ flight' = (flight \ {r}) \cup {q}
           /\ name' = [name EXCEPT ![t] = current[t]] /\ UNCHANGED pill
  <2> HIDE DEF q, t
  <2>1. PagesTyped' BY <1>1, <1>2, <1>3, <1>4, <1>7 DEF PagesTyped
  <2>2. Only(t) BY <1>1, <1>2, <1>3, <1>7 DEF Only, PagesTyped, t
  <2>3. TabOK(t)' BY <1>1, <1>2, <1>3, <1>7 DEF TabOK, Secrets, PagesTyped
  <2> QED BY <1>1, <1>4, <2>1, <2>2, <2>3, OneTabMoves
<1> QED BY <1>5, <1>6, <1>7 DEF StatusArrives

LEMMA UnlockKeeps ==
  ASSUME PagesOK, NEW r \in flight, NEW answer, UnlockArrives(r, answer), Claim(r.tab)
  PROVE  PagesOK'
<1> DEFINE t == r.tab
           q == Ask(t, "status", current[t])
<1>1. /\ t \in Tab /\ page[t] = "loaded" /\ r.kind = "unlock"
      /\ q \in Request /\ q.tab = t /\ q.kind = "status"
  BY Waits DEF Ask, Request, Kind, UnlockArrives
<1>2. PagesTyped /\ Holder /\ TabOK(t) BY <1>1 DEF PagesOK
<1>3. UNCHANGED <<page, current, name, shows, pill, crossed>> BY DEF UnlockArrives, pageVars
<1>4. Holder' /\ lock' \in Tab \cup {None} /\ beat' \in {"fresh", "late"} /\ lapsed' \in BOOLEAN
  BY <1>1, <1>2, <1>3, HolderKeeps
<1>5. flight' \in {flight \ {r}, (flight \ {r}) \cup {q}} BY DEF UnlockArrives
<1> HIDE DEF q, t
<1>6. PagesTyped' BY <1>1, <1>2, <1>3, <1>4, <1>5 DEF PagesTyped
<1>7. Only(t) BY <1>1, <1>3, <1>5 DEF Only, t
<1>8. TabOK(t)' BY <1>1, <1>2, <1>3, <1>5 DEF TabOK, Secrets
<1> QED BY <1>1, <1>4, <1>6, <1>7, <1>8, OneTabMoves

\* Secrets are shown to a tab that has the lock.
LEMMA SecretsKeep ==
  ASSUME PagesOK, NEW r \in flight, NEW answer \in Answers(r.tab), SecretsArrive(r, answer),
         Claim(r.tab)
  PROVE  PagesOK'
<1> DEFINE t == r.tab
           others == {q \in Of(t) : q.kind = "secrets"} \ {r}
<1>1. /\ t \in Tab /\ page[t] = "loaded" /\ r.kind = "secrets" /\ r.profile \in Profile
      /\ flight' = flight \ {r}
  BY Waits DEF SecretsArrive
<1>2. PagesTyped /\ Holder /\ TabOK(t) BY <1>1 DEF PagesOK
<1>3. CASE answer = "open"
  <2>1. /\ shows' = [shows EXCEPT ![t] = r.profile] /\ pill' = [pill EXCEPT ![t] = "open"]
        /\ crossed' = [crossed EXCEPT ![t] = crossed[t] /\ (others # {} \/ r.profile # name[t])]
        /\ UNCHANGED <<page, current, name>>
    BY <1>3 DEF SecretsArrive
  <2>2. Pass(t) BY <1>3 DEF Answers, Pass
  <2>3. lock' = t /\ beat' = "fresh" /\ UNCHANGED lapsed /\ Claimed(t)
    BY <2>2 DEF Claim, Pass
  <2>4. others = {q \in flight : Secrets(q, t)} \ {r} BY DEF Of, Secrets
  <2> DEFINE more == crossed[t] /\ (others # {} \/ r.profile # name[t])
  <2>5. crossed' = [crossed EXCEPT ![t] = more] /\ more \in BOOLEAN
    BY <1>1, <1>2, <2>1 DEF PagesTyped
  <2>6. /\ more => crossed[t]
        /\ ~more => ~crossed[t] \/ (others = {} /\ r.profile = name[t])
    BY <1>1, <1>2 DEF PagesTyped
  <2> HIDE DEF more, t, others
  <2>7. PagesTyped' BY <1>1, <1>2, <2>1, <2>3, <2>5 DEF PagesTyped
  <2>8. Holder'
    BY <1>1, <1>2, <2>1, <2>3, GuiAssumption DEF PagesTyped, Holder, Claimed
  <2>9. Only(t) BY <1>1, <1>2, <2>1, <2>5 DEF Only, PagesTyped, t
  <2>10. TabOK(t)'
    <3>1. /\ shows'[t] = r.profile /\ page'[t] = "loaded" /\ crossed'[t] = more
          /\ current'[t] = current[t] /\ name'[t] = name[t]
      BY <1>1, <1>2, <2>1, <2>5 DEF PagesTyped
    <3>2. ASSUME ~more
          PROVE  /\ \A q \in flight' : Secrets(q, t) => q.profile = current[t] /\ name[t] = current[t]
                 /\ r.profile = name[t]
      <4>1. CASE ~crossed[t]
        BY <1>1, <1>2, <4>1 DEF TabOK, Secrets, t
      <4>2. CASE others = {} /\ r.profile = name[t]
        BY <1>1, <2>4, <4>2
      <4> QED BY <2>6, <3>2, <4>1, <4>2
    <3>3. shows'[t] # None \/ (\E q \in flight' : q.tab = t) => page'[t] = "loaded" BY <3>1
    <3> QED BY <3>1, <3>2, <3>3 DEF TabOK, Secrets
  <2> QED BY <1>1, <2>7, <2>8, <2>9, <2>10, OneTabMoves
<1>4. CASE answer # "open"
  <2>1. /\ pill' = [pill EXCEPT ![t] = "locked"]
        /\ UNCHANGED <<page, current, name, shows, crossed>>
    BY <1>4 DEF SecretsArrive, RenderLocked
  <2>2. Holder' /\ lock' \in Tab \cup {None} /\ beat' \in {"fresh", "late"} /\ lapsed' \in BOOLEAN
    BY <1>1, <1>2, <2>1, HolderKeeps
  <2> HIDE DEF t
  <2>3. PagesTyped' BY <1>1, <1>2, <2>1, <2>2 DEF PagesTyped
  <2>4. Only(t) BY <1>1, <1>2, <2>1 DEF Only, PagesTyped, t
  <2>5. TabOK(t)' BY <1>1, <1>2, <2>1 DEF TabOK, Secrets, PagesTyped
  <2> QED BY <1>1, <2>2, <2>3, <2>4, <2>5, OneTabMoves
<1> QED BY <1>3, <1>4

LEMMA AnswerKeeps ==
  ASSUME PagesOK, NEW r \in flight, Answer(r)
  PROVE  PagesOK'
<1>1. r.tab \in Tab /\ Claim(r.tab) BY Waits DEF Answer
<1>2. PICK answer \in Answers(r.tab) :
        \/ RenderBlocked(r.tab)
        \/ StatusArrives(r, answer) \/ SecretsArrive(r, answer) \/ UnlockArrives(r, answer)
  BY DEF Answer
<1>3. CASE RenderBlocked(r.tab) BY <1>1, <1>3, LeaveKeeps DEF RenderBlocked
<1> QED BY <1>1, <1>2, <1>3, StatusKeeps, SecretsKeep, UnlockKeeps

-----------------------------------------------------------------------------
(* The user, the timers and the server.                                    *)

LEMMA UserKeeps ==
  ASSUME PagesOK, NEW t \in Tab, NEW p \in Profile,
         ChangeProfile(t, p) \/ TriggerUnlock(t) \/ IdleLock(t)
  PROVE  PagesOK'
<1>1. PagesTyped /\ Holder /\ TabOK(t) BY DEF PagesOK
<1>2. page[t] = "loaded" /\ UNCHANGED <<page, name, shows>> /\ UNCHANGED lockVars
  BY DEF ChangeProfile, TriggerUnlock, IdleLock, RenderLocked, pageVars
<1>3. Holder' /\ lock' \in Tab \cup {None} /\ beat' \in {"fresh", "late"} /\ lapsed' \in BOOLEAN
  BY <1>1, <1>2, HolderKeeps
<1>4. CASE ChangeProfile(t, p)
  <2> DEFINE q == Ask(t, "status", p)
             now == crossed[t] \/ \E r \in Of(t) : r.kind = "secrets"
  <2>1. q \in Request /\ q.tab = t /\ q.kind = "status" BY DEF Ask, Request, Kind
  <2>2. /\ current' = [current EXCEPT ![t] = p] /\ crossed' = [crossed EXCEPT ![t] = now]
        /\ flight' = flight \cup {q} /\ UNCHANGED pill
    BY <1>4 DEF ChangeProfile
  <2>3. now \in BOOLEAN /\ (~now => ~crossed[t] /\ \A r \in flight : ~Secrets(r, t))
    BY <1>1 DEF PagesTyped, Secrets, Of
  <2> HIDE DEF q, now
  <2>4. PagesTyped' BY <1>1, <1>2, <1>3, <2>1, <2>2, <2>3 DEF PagesTyped
  <2>5. Only(t) BY <1>1, <1>2, <2>1, <2>2 DEF Only, PagesTyped
  <2>6. TabOK(t)' BY <1>1, <1>2, <2>1, <2>2, <2>3 DEF TabOK, Secrets, PagesTyped
  <2> QED BY <1>3, <2>4, <2>5, <2>6, OneTabMoves
<1>5. CASE TriggerUnlock(t)
  <2> DEFINE q == Ask(t, "unlock", current[t])
  <2>1. q \in Request /\ q.tab = t /\ q.kind = "unlock" BY <1>1 DEF Ask, Request, Kind, PagesTyped
  <2>2. flight' = flight \cup {q} /\ UNCHANGED <<current, crossed, pill>>
    BY <1>5 DEF TriggerUnlock, pageVars
  <2> HIDE DEF q
  <2>3. PagesTyped' BY <1>1, <1>2, <1>3, <2>1, <2>2 DEF PagesTyped
  <2>4. Only(t) BY <1>2, <2>1, <2>2 DEF Only
  <2>5. TabOK(t)' BY <1>1, <1>2, <2>1, <2>2 DEF TabOK, Secrets
  <2> QED BY <1>3, <2>3, <2>4, <2>5, OneTabMoves
<1>6. CASE IdleLock(t)
  <2>1. pill' = [pill EXCEPT ![t] = "locked"] /\ UNCHANGED <<current, crossed, flight>>
    BY <1>6 DEF IdleLock, RenderLocked
  <2>2. PagesTyped' BY <1>1, <1>2, <1>3, <2>1 DEF PagesTyped
  <2>3. Only(t) BY <1>1, <1>2, <2>1 DEF Only, PagesTyped
  <2>4. TabOK(t)' BY <1>1, <1>2, <2>1 DEF TabOK, Secrets, PagesTyped
  <2> QED BY <1>3, <2>2, <2>3, <2>4, OneTabMoves
<1> QED BY <1>4, <1>5, <1>6

\* A launch takes the lock from its tab, and silence gives it away: either is
\* remembered if a page was there.
LEMMA ServerKeeps ==
  ASSUME PagesOK, HeartbeatLate \/ \E s \in Server : KillExisting(s) \/ Listen(s) \/ ServerExits(s)
  PROVE  PagesOK'
<1>1. UNCHANGED <<page, current, name, shows, pill, crossed, flight>>
  BY DEF HeartbeatLate, KillExisting, Listen, ServerExits, pageVars
<1>2. PagesTyped /\ Holder /\ \A t \in Tab : TabOK(t) BY DEF PagesOK
<1>3. \A t \in Tab : shows[t] # None => page[t] = "loaded" BY <1>2 DEF TabOK
<1>4. \/ UNCHANGED lockVars
      \/ lock' = None /\ beat' = "fresh" /\ lapsed' = (lapsed \/ \E t \in Tab : page[t] = "loaded")
      \/ /\ lock # None /\ beat' = "late" /\ UNCHANGED lock
         /\ lapsed' = (lapsed \/ page[lock] # "closed")
  BY DEF HeartbeatLate, KillExisting, Listen, ServerExits, lockVars
<1>5. Holder' /\ lock' \in Tab \cup {None} /\ beat' \in {"fresh", "late"} /\ lapsed' \in BOOLEAN
  BY <1>1, <1>2, <1>3, <1>4 DEF Holder, PagesTyped, lockVars
<1>6. PagesTyped' BY <1>1, <1>2, <1>5 DEF PagesTyped
<1>7. \A t \in Tab : TabOK(t)' BY <1>1, <1>2 DEF TabOK
<1> QED BY <1>5, <1>6, <1>7 DEF PagesOK

LEMMA PagesKeep == PagesOK /\ [Next]_vars => PagesOK'
<1> SUFFICES ASSUME PagesOK, [Next]_vars PROVE PagesOK' OBVIOUS
<1>1. CASE HeartbeatLate \/ \E s \in Server : KillExisting(s) \/ Listen(s) \/ ServerExits(s)
  BY <1>1, ServerKeeps
<1>2. ASSUME NEW t \in Tab,
             LoadLaunchURL(t) \/ LoadPage(t) \/ CloseTab(t) \/ StopServer(t)
      PROVE  PagesOK'
  <2>1. Start(t) \/ \E state \in {"closed", "replaced"} : Leave(t, state)
    BY <1>2 DEF LoadLaunchURL, LoadPage, CloseTab, StopServer
  <2>2. Claim(t) \/ UNCHANGED lockVars
    BY <1>2 DEF LoadLaunchURL, LoadPage, CloseTab, StopServer
  <2> QED BY <2>1, <2>2, StartKeeps, LeaveKeeps
<1>3. ASSUME NEW t \in Tab, Heartbeat(t) PROVE PagesOK'
  <2>1. Claim(t) BY <1>3 DEF Heartbeat
  <2>2. Leave(t, "replaced") \/ UNCHANGED <<pageVars, flight>>
    BY <1>3 DEF Heartbeat, RenderBlocked
  <2> QED BY <2>1, <2>2, LeaveKeeps, SamePages
<1>4. ASSUME NEW t \in Tab, TriggerUnlock(t) \/ IdleLock(t) PROVE PagesOK'
  BY <1>4, UserKeeps, GuiAssumption
<1>5. ASSUME NEW t \in Tab, NEW p \in Picks[t], ChangeProfile(t, p) PROVE PagesOK'
  <2>1. p \in Profile BY GuiAssumption
  <2> QED BY <1>5, <2>1, UserKeeps
<1>6. ASSUME NEW r \in flight, Answer(r) PROVE PagesOK' BY <1>6, AnswerKeeps
<1>7. CASE UNCHANGED vars \/ \E b \in Browser : LoadElsewhere(b)
  <2>1. UNCHANGED <<page, current, name, shows, pill, crossed, flight, lock, beat, lapsed>>
    BY <1>7 DEF vars, LoadElsewhere, pageVars, lockVars
  <2> QED BY <2>1 DEF PagesOK, PagesTyped, Holder, TabOK
<1> QED BY <1>1, <1>2, <1>3, <1>4, <1>5, <1>6, <1>7 DEF Next

-----------------------------------------------------------------------------
(* Requests on their way.                                                  *)

FlightOK == IsFiniteSet(flight) /\ Cardinality(flight) <= MaxFlight

LEMMA Fewer ==
  ASSUME FlightOK, NEW S \in SUBSET flight
  PROVE  IsFiniteSet(S) /\ Cardinality(S) \in Nat /\ Cardinality(S) <= MaxFlight
<1>1. /\ IsFiniteSet(S) /\ Cardinality(S) <= Cardinality(flight)
      /\ Cardinality(S) \in Nat /\ Cardinality(flight) \in Nat
  BY FS_Subset, FS_CardinalityType DEF FlightOK
<1> QED BY <1>1, GuiAssumption DEF FlightOK

LEMMA OneMore ==
  ASSUME FlightOK, NEW S \in SUBSET flight, NEW q,
         Cardinality(S) < MaxFlight
  PROVE  IsFiniteSet(S \cup {q}) /\ Cardinality(S \cup {q}) <= MaxFlight
<1>1. IsFiniteSet(S) /\ Cardinality(S) \in Nat BY Fewer
<1>2. /\ IsFiniteSet(S \cup {q})
      /\ Cardinality(S \cup {q}) = IF q \in S THEN Cardinality(S) ELSE Cardinality(S) + 1
  BY <1>1, FS_AddElement
<1> QED BY <1>1, <1>2, GuiAssumption

LEMMA Replaced ==
  ASSUME FlightOK, NEW r \in flight
  PROVE  Cardinality(flight \ {r}) < MaxFlight
<1>1. /\ Cardinality(flight \ {r}) = Cardinality(flight) - 1
      /\ Cardinality(flight) \in Nat /\ Cardinality(flight) <= MaxFlight
  BY FS_RemoveElement, FS_CardinalityType DEF FlightOK
<1> QED BY <1>1, GuiAssumption

\* A request is added where there is room, or in place of its cause.
LEMMA FlightKeeps == FlightOK /\ [Next]_vars => FlightOK'
<1> SUFFICES ASSUME FlightOK, [Next]_vars PROVE FlightOK' OBVIOUS
<1>1. CASE flight' \subseteq flight BY <1>1, Fewer DEF FlightOK
<1>2. ASSUME NEW S \in SUBSET flight, NEW q, Room(S), flight' = S \cup {q} PROVE FlightOK'
  BY <1>2, OneMore DEF Room, FlightOK
<1>3. ASSUME NEW t \in Tab, LoadLaunchURL(t) \/ LoadPage(t) PROVE FlightOK'
  <2>1. Room(flight \ Of(t)) /\ (Start(t) \/ Leave(t, "closed"))
    BY <1>3 DEF LoadLaunchURL, LoadPage
  <2>2. CASE Leave(t, "closed") BY <1>1, <2>2 DEF Leave
  <2>3. CASE Start(t)
    <3>1. flight' = (flight \ Of(t)) \cup {Ask(t, "status", Home)} BY <2>3 DEF Start
    <3> QED BY <1>2, <2>1, <3>1
  <2> QED BY <2>1, <2>2, <2>3
<1>4. ASSUME NEW t \in Tab, TriggerUnlock(t) \/ \E p \in Picks[t] : ChangeProfile(t, p) PROVE FlightOK'
  <2>1. Room(flight) /\ \E q : flight' = flight \cup {q}
    BY <1>4 DEF TriggerUnlock, ChangeProfile
  <2> QED BY <1>2, <2>1
<1>5. ASSUME NEW r \in flight, Answer(r) PROVE FlightOK'
  <2>1. flight' \subseteq flight \/ \E q : flight' = (flight \ {r}) \cup {q}
    BY <1>5 DEF Answer, RenderBlocked, Leave, StatusArrives, SecretsArrive, UnlockArrives
  <2>2. Room(flight \ {r}) BY <1>5, Replaced DEF Room
  <2> QED BY <1>1, <1>2, <2>1, <2>2
<1>6. CASE \/ UNCHANGED vars \/ HeartbeatLate \/ \E b \in Browser : LoadElsewhere(b)
           \/ \E s \in Server : KillExisting(s) \/ Listen(s) \/ ServerExits(s)
           \/ \E t \in Tab : CloseTab(t) \/ StopServer(t) \/ Heartbeat(t) \/ IdleLock(t)
  <2>1. flight' \subseteq flight
    BY <1>6 DEF vars, HeartbeatLate, LoadElsewhere, KillExisting, Listen, ServerExits, CloseTab,
                StopServer, Heartbeat, IdleLock, RenderBlocked, Leave
  <2> QED BY <1>1, <2>1
<1> QED BY <1>3, <1>4, <1>5, <1>6 DEF Next

-----------------------------------------------------------------------------
(* The theorems.                                                           *)

IInv == CookiesOK /\ PagesOK /\ FlightOK

LEMMA StartsWell == Init => IInv
<1> SUFFICES ASSUME Init PROVE IInv OBVIOUS
<1> USE GuiAssumption DEF Init, Rest
<1>1. CookiesOK BY DEF CookiesOK, Launches, UpOne, Served, Unused, Alone, Up
<1>2. PagesOK BY DEF PagesOK, PagesTyped, Holder, TabOK, Secrets
<1>3. FlightOK BY FS_EmptySet DEF FlightOK
<1> QED BY <1>1, <1>2, <1>3 DEF IInv

\* However many launches, tabs and answers: one process has the port, one
\* browser its cookie, and what a tab shows, or waits for, goes with the lock
\* and with the name it displays.
THEOREM GuiInvariant == Spec => []IInv
<1>1. IInv /\ [Next]_vars => IInv' BY CookiesKeep, PagesKeep, FlightKeeps DEF IInv
<1> QED BY <1>1, StartsWell, PTL DEF Spec

\* No step of a server, a page or a user leaves one of them with something
\* that is none of its values.
THEOREM GuiTyped == Spec => []TypeOK
<1>1. IInv => TypeOK
  BY DEF IInv, TypeOK, CookiesOK, Launches, PagesOK, PagesTyped, FlightOK
<1> QED BY <1>1, GuiInvariant, PTL

\* The cookie of the process that serves is in one browser at most.
THEOREM LaunchOfOneBrowser == Spec => []OneBrowser
<1>1. IInv => OneBrowser BY ServingUp DEF IInv, CookiesOK, Alone, OneBrowser
<1> QED BY <1>1, GuiInvariant, PTL

\* What a page shows as an active session are the secrets of the profile it
\* names, in whatever order its answers arrive, but for answers that crossed a
\* change of the profile.
THEOREM PageIsTrue == Spec => []PillTrue
<1>1. IInv => PillTrue BY DEF IInv, PagesOK, TabOK, PillTrue, Of, Secrets
<1> QED BY <1>1, GuiInvariant, PTL

\* Two tabs show secrets at once only after a tab was silent, or a server was
\* started anew under it.
THEOREM OneTabShows == Spec => []OneTab
<1>1. IInv => OneTab BY DEF IInv, PagesOK, Holder, OneTab
<1> QED BY <1>1, GuiInvariant, PTL
=============================================================================
