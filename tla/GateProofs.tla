----------------------------- MODULE GateProofs -----------------------------
(* Proofs about Gate, for any number of tabs and tokens and however long the *)
(* user acts.                                                                *)
EXTENDS Gate, TLAPS

-----------------------------------------------------------------------------
(* The handlers.                                                           *)

\* A request of the browser: a page, or a form that reports on an act.
FromBrowser(r) ==
    /\ r \in Request
    /\ r.bearer = None
    /\ \/ r.method = "GET" /\ r.path \in {"/", "/login"} /\ r.id = 0
       \/ /\ r.method = "POST" /\ r.path \in {"/login", "/sites", "/logout"}
          /\ r.id \in Acts /\ r.flash = None

\* A flash only travels with a redirect, a toast only with a page that deletes
\* the cookie, and not both at once.
Shaped(a) ==
    /\ a.to = None => a.flash = None /\ a.notice \in {None, Same}
    /\ a.toast # None => a.to = None /\ a.notice = None
    /\ a.notice \notin {None, Same} => a.flash = None /\ a.to # None

\* What an answer may say to a request: the outcome travels from the request to
\* the ?flash=, from there to the cookie, and from there to the toast; a token
\* is only handed out to who has typed it; a change is answered by a redirect.
Fits(r, a) ==
    /\ a \in Reply
    /\ a.flash = None \/ (a.flash \in Flash /\ a.flash.id = r.id)
    /\ a.notice \in {None, Same} \/ a.notice = r.flash
    /\ a.toast = None \/ a.toast = r.notice
    /\ a.session \in {None, Same} \/ (a.session = r.token /\ r.token \in Token)
    /\ Shaped(a)
    /\ a.changed => /\ a.to # None
                    /\ secret \in Token /\ r.csrf = secret /\ r.cookie = secret

\* The fields of the answers that the handlers start from.
LEMMA PageFacts ==
    ASSUME NEW p \in Pages
    PROVE  /\ Page(p) \in Reply
           /\ Page(p).to = None /\ Page(p).flash = None /\ Page(p).toast = None
           /\ Page(p).changed = FALSE /\ Page(p).session = Same
           /\ Page(p).notice = Same /\ Page(p).csrf = None /\ Page(p).page = p
  BY DEF Page, Reply, MaybeFlash, MaybeToken, Flash

LEMMA PageFits ==
    ASSUME NEW r \in Request, NEW p \in Pages PROVE Fits(r, Page(p))
  BY PageFacts DEF Fits, Shaped

LEMMA RedirectFacts ==
    ASSUME NEW to \in {"/", "/login"}, NEW m \in MaybeFlash
    PROVE  /\ Redirect(to, m) \in Reply
           /\ Redirect(to, m).to = to /\ Redirect(to, m).flash = m
           /\ Redirect(to, m).toast = None /\ Redirect(to, m).changed = FALSE
           /\ Redirect(to, m).session = Same /\ Redirect(to, m).notice = Same
  <1>1. Redirect(to, m) \in Reply
    BY DEF Redirect, Page, Reply, MaybeFlash, MaybeToken, Pages
  <1>2. /\ Redirect(to, m).to = to /\ Redirect(to, m).flash = m
        /\ Redirect(to, m).toast = None /\ Redirect(to, m).changed = FALSE
        /\ Redirect(to, m).session = Same /\ Redirect(to, m).notice = Same
    BY DEF Redirect, Page
  <1> QED
    BY <1>1, <1>2

LEMMA RedirectFits ==
    ASSUME NEW r \in Request, NEW to \in {"/", "/login"}, NEW m,
           m = None \/ (m \in Flash /\ m.id = r.id)
    PROVE  Fits(r, Redirect(to, m))
  <1> DEFINE a == Redirect(to, m)
  <1>1. m \in MaybeFlash
    BY DEF MaybeFlash
  <1>2. /\ a \in Reply /\ a.to = to /\ a.flash = m /\ a.toast = None
        /\ a.changed = FALSE /\ a.session = Same /\ a.notice = Same
    BY <1>1, RedirectFacts
  <1> HIDE DEF a
  <1>3. Fits(r, a)
    BY <1>2, SentinelAssumption DEF Fits, Shaped
  <1> QED
    BY <1>3 DEF a

\* The flash of an answer to a form.
LEMMA FlashFacts ==
    ASSUME NEW id \in Acts, NEW k \in {"success", "error", "invalid_login", "logged_out"}
    PROVE  /\ [key |-> k, id |-> id] \in Flash /\ [key |-> k, id |-> id].id = id
           /\ [key |-> k, id |-> id] \in MaybeFlash
  BY DEF Flash, MaybeFlash

\* A ?flash= that moves into the cookie.
LEMMA MoveFits ==
    ASSUME NEW r \in Request, r.flash # None, NEW to \in {"/", "/login"}
    PROVE  Fits(r, setFlashCookie(Redirect(to, None), r.flash))
  <1> DEFINE a == Redirect(to, None)
             b == setFlashCookie(a, r.flash)
  <1>1. r.flash \in Flash
    BY DEF Request, MaybeFlash
  <1>6. None \in MaybeFlash
    BY DEF MaybeFlash
  <1>2. /\ a \in Reply /\ a.to = to /\ a.flash = None /\ a.toast = None
        /\ a.changed = FALSE /\ a.session = Same
    BY <1>6, RedirectFacts
  <1> HIDE DEF a
  <1>3. b \in Reply
    BY <1>1, <1>2 DEF setFlashCookie, Reply, MaybeFlash
  <1>4. /\ b.to = to /\ b.flash = None /\ b.toast = None /\ b.notice = r.flash
        /\ b.changed = FALSE /\ b.session = Same
    BY <1>2 DEF setFlashCookie, Reply
  <1> HIDE DEF b
  <1>5. Fits(r, b)
    BY <1>3, <1>4, SentinelAssumption DEF Fits, Shaped
  <1> QED
    BY <1>5 DEF a, b

\* A page that takes its toast from the cookie.
LEMMA TakeFits ==
    ASSUME NEW r \in Request, NEW a \in Reply, a.to = None, a.flash = None,
           a.toast = None, a.notice = Same, a.changed = FALSE, a.session = Same
    PROVE  Fits(r, takeFlashCookie(r, a))
  <1> DEFINE b == [a EXCEPT !.toast = r.notice, !.notice = None]
  <1>1. CASE r.notice = None
    BY <1>1 DEF takeFlashCookie, Fits, Shaped
  <1>2. CASE r.notice # None
    <2>1. r.notice \in MaybeFlash
      BY DEF Request
    <2>2. b \in Reply
      BY <2>1 DEF Reply
    <2>3. /\ b.to = None /\ b.flash = None /\ b.toast = r.notice /\ b.notice = None
          /\ b.changed = FALSE /\ b.session = Same
      BY DEF Reply
    <2> HIDE DEF b
    <2>4. Fits(r, b)
      BY <2>2, <2>3 DEF Fits, Shaped
    <2> QED
      BY <1>2, <2>4 DEF takeFlashCookie, b
  <1> QED
    BY <1>1, <1>2

LEMMA IndexFits ==
    ASSUME secret \in MaybeToken, NEW r \in Request PROVE Fits(r, HandleIndex(r))
  <1> DEFINE a == [Page("index") EXCEPT !.csrf = secret]
  <1>1. /\ a \in Reply /\ a.to = None /\ a.flash = None /\ a.toast = None
        /\ a.notice = Same /\ a.changed = FALSE /\ a.session = Same
    BY DEF Page, Reply, Pages, MaybeFlash, MaybeToken
  <1> HIDE DEF a
  <1>2. Fits(r, takeFlashCookie(r, a))
    BY <1>1, TakeFits
  <1> QED
    BY <1>2, MoveFits DEF HandleIndex, a

LEMMA LoginPageFits ==
    ASSUME NEW r \in Request PROVE Fits(r, HandleLoginPage(r))
  <1>1. Fits(r, Redirect("/", None))
    BY RedirectFits
  <1>2. Fits(r, takeFlashCookie(r, Page("login")))
    BY PageFacts, TakeFits DEF Pages
  <1> QED
    BY <1>1, <1>2, MoveFits DEF HandleLoginPage

LEMMA LoginFits ==
    ASSUME secret \in MaybeToken, NEW r \in Request, r.id \in Acts
    PROVE  Fits(r, HandleLogin(r))
  <1>1. CASE tokenMatches(r.token)
    <2> DEFINE a == Redirect("/", None)
               b == SetSessionCookie(a)
    <2>1. /\ a \in Reply /\ a.to = "/" /\ a.flash = None /\ a.toast = None
          /\ a.changed = FALSE /\ a.notice = Same
      BY RedirectFacts DEF MaybeFlash
    <2>2. secret = r.token /\ r.token \in Token
      BY <1>1 DEF tokenMatches, MaybeToken
    <2> HIDE DEF a
    <2>3. b \in Reply
      BY <2>1, <2>2 DEF SetSessionCookie, Reply, MaybeToken
    <2>4. /\ b.to = "/" /\ b.flash = None /\ b.toast = None /\ b.changed = FALSE
          /\ b.notice = Same /\ b.session = secret
      BY <2>1 DEF SetSessionCookie, Reply
    <2> HIDE DEF b
    <2>5. Fits(r, b)
      BY <2>2, <2>3, <2>4, SentinelAssumption DEF Fits, Shaped
    <2> QED
      BY <1>1, <2>5 DEF HandleLogin, a, b
  <1>2. CASE ~tokenMatches(r.token)
    BY <1>2, RedirectFits, FlashFacts DEF HandleLogin
  <1> QED
    BY <1>1, <1>2

LEMMA LogoutFits ==
    ASSUME NEW r \in Request, r.id \in Acts PROVE Fits(r, HandleLogout(r))
  <1> DEFINE m == [key |-> "logged_out", id |-> r.id]
             a == Redirect("/login", m)
             b == Logout(a)
  <1>1. m \in Flash /\ m.id = r.id /\ m \in MaybeFlash
    BY FlashFacts
  <1> HIDE DEF m
  <1>2. /\ a \in Reply /\ a.to = "/login" /\ a.flash = m /\ a.toast = None
        /\ a.changed = FALSE /\ a.notice = Same
    BY <1>1, RedirectFacts
  <1> HIDE DEF a
  <1>3. b \in Reply
    BY <1>2 DEF Logout, Reply, MaybeToken
  <1>4. /\ b.to = "/login" /\ b.flash = m /\ b.toast = None /\ b.changed = FALSE
        /\ b.notice = Same /\ b.session = None
    BY <1>2 DEF Logout, Reply
  <1> HIDE DEF b
  <1>5. Fits(r, b)
    BY <1>1, <1>3, <1>4, SentinelAssumption DEF Fits, Shaped
  <1> QED
    BY <1>5 DEF HandleLogout, m, a, b

\* A form is only served for a session and a page of the token in force.
LEMMA FormFits ==
    ASSUME NEW r \in Request, r.id \in Acts, NEW k \in {"success", "error"},
           secret \in Token, r.csrf = secret, r.cookie = secret
    PROVE  Fits(r, redirectAfterForm(r, k))
  <1> DEFINE m == [key |-> k, id |-> r.id]
             a == Redirect("/", m)
             b == redirectAfterForm(r, k)
  <1>1. m \in Flash /\ m.id = r.id /\ m \in MaybeFlash
    BY FlashFacts
  <1>2. b = [a EXCEPT !.changed = (k = "success")]
    BY DEF redirectAfterForm
  <1> HIDE DEF m, b
  <1>3. /\ a \in Reply /\ a.to = "/" /\ a.flash = m /\ a.toast = None
        /\ a.notice = Same /\ a.session = Same
    BY <1>1, RedirectFacts
  <1> HIDE DEF a
  <1>4. b \in Reply
    BY <1>2, <1>3 DEF Reply
  <1>5. /\ b.to = "/" /\ b.flash = m /\ b.toast = None /\ b.notice = Same
        /\ b.session = Same
    BY <1>2, <1>3 DEF Reply
  <1>6. Fits(r, b)
    BY <1>1, <1>4, <1>5, SentinelAssumption DEF Fits, Shaped
  <1> QED
    BY <1>6 DEF b

\* A form reaches its handler with the session and the page of the token in
\* force: Session and CSRF compare both with it.
LEMMA SessionFits ==
    ASSUME secret \in MaybeToken, NEW r, FromBrowser(r), r.path # "/login",
           NEW a \in Session(r)
    PROVE  Fits(r, a)
  <1>1. r \in Request /\ r.bearer = None /\ r.path \in {"/", "/sites", "/logout"}
    BY DEF FromBrowser
  <1>2. CASE ~HasValidSession(r)
    BY <1>1, <1>2, RedirectFits DEF Session
  <1>3. CASE HasValidSession(r) /\ ~PassesCSRF(r)
    BY <1>1, <1>3, PageFits DEF Session, CSRF, Pages
  <1>4. CASE HasValidSession(r) /\ PassesCSRF(r)
    <2>1. a \in PagesMux(r)
      BY <1>4 DEF Session, CSRF
    <2>2. secret \in Token /\ r.cookie = secret
      BY <1>1, <1>4 DEF HasValidSession, tokenMatches, MaybeToken
    <2>3. CASE r.path = "/"
      BY <1>1, <2>1, <2>3, IndexFits DEF PagesMux
    <2>4. CASE r.path # "/"
      <3>1. r.method = "POST" /\ r.id \in Acts
        BY <2>4, <1>1 DEF FromBrowser
      <3>2. r.csrf = secret
        BY <1>1, <1>4, <3>1 DEF PassesCSRF, tokenMatches
      <3>3. CASE r.path = "/sites"
        <4>1. PICK k \in {"success", "error"} : a = redirectAfterForm(r, k)
          BY <2>1, <3>3 DEF PagesMux
        <4> QED
          BY <4>1, <1>1, <2>2, <3>1, <3>2, FormFits
      <3>4. CASE r.path = "/logout"
        BY <1>1, <2>1, <3>1, <3>4, LogoutFits DEF PagesMux
      <3> QED
        BY <1>1, <2>4, <3>3, <3>4
    <2> QED
      BY <2>3, <2>4
  <1> QED
    BY <1>2, <1>3, <1>4

LEMMA HandlerFits ==
    ASSUME secret \in MaybeToken, NEW r, FromBrowser(r), NEW a \in Handler(r)
    PROVE  Fits(r, a)
  <1>1. r \in Request
    BY DEF FromBrowser
  <1>2. CASE r.path = "/login" /\ r.method = "POST"
    <2>1. r.id \in Acts
      BY <1>2 DEF FromBrowser
    <2>2. a = HandleLogin(r) \/ a = Page("limited")
      BY <1>2 DEF Handler, LoginMux
    <2> QED
      BY <1>1, <2>1, <2>2, LoginFits, PageFits DEF Pages
  <1>3. CASE r.path = "/login" /\ r.method # "POST"
    BY <1>1, <1>3, LoginPageFits DEF Handler, LoginMux
  <1>4. CASE r.path # "/login"
    <2>1. r.path # "/api"
      BY DEF FromBrowser
    <2> QED
      BY <1>4, <2>1, SessionFits DEF Handler
  <1> QED
    BY <1>2, <1>3, <1>4

\* A script changes something only with the token in force.
LEMMA ScriptFits ==
    ASSUME secret \in MaybeToken, NEW r \in Request, r.path \in {"/api", "/sites"},
           r.method = "POST", r.cookie = None, r.csrf = None,
           NEW a \in Handler(r), a.changed
    PROVE  secret \in Token /\ r.bearer = secret
  <1>1. SUFFICES ASSUME ~tokenMatches(r.bearer) PROVE FALSE
    BY DEF tokenMatches, MaybeToken
  <1>2. Page("unauthorized").changed = FALSE /\ Page("limited").changed = FALSE
    BY PageFacts DEF Pages
  <1>3. Redirect("/login", None).changed = FALSE
    BY RedirectFacts DEF MaybeFlash
  <1>4. CASE r.path = "/api"
    BY <1>1, <1>2, <1>4 DEF Handler, API
  <1>5. CASE r.path = "/sites"
    BY <1>1, <1>3, <1>5 DEF Handler, Session, HasValidSession, tokenMatches
  <1> QED
    BY <1>4, <1>5

-----------------------------------------------------------------------------
(* The requests the browser makes.                                         *)

LEMMA GetFacts ==
    ASSUME NEW path \in {"/", "/login"}, NEW m \in MaybeFlash
    PROVE  /\ FromBrowser(Get(path, m)) /\ Get(path, m) \in Request
           /\ Get(path, m).id = 0 /\ Get(path, m).flash = m
           /\ Get(path, m).token = None /\ Get(path, m).csrf = None
  <1>1. Get(path, m) \in Request
    BY DEF Get, Request, MaybeToken, MaybeFlash
  <1>2. /\ Get(path, m).id = 0 /\ Get(path, m).flash = m
        /\ Get(path, m).token = None /\ Get(path, m).csrf = None
        /\ Get(path, m).method = "GET" /\ Get(path, m).path = path
        /\ Get(path, m).bearer = None
    BY DEF Get
  <1> QED
    BY <1>1, <1>2 DEF FromBrowser

LEMMA PostFacts ==
    ASSUME acts \in Nat, acts < MaxActs, NEW path \in {"/login", "/sites", "/logout", "/api"},
           NEW c \in MaybeToken, NEW k \in MaybeToken
    PROVE  LET r == Post(path, c, k)
           IN  /\ r \in Request /\ r.id = acts + 1 /\ r.flash = None
               /\ r.method = "POST" /\ r.path = path /\ r.bearer = None
               /\ r.token = k /\ r.csrf = c /\ r.cookie = None
  <1>1. acts + 1 \in Acts
    BY BoundsAssumption DEF Acts
  <1>2. Post(path, c, k) \in Request
    BY <1>1 DEF Post, Get, Request, MaybeToken, MaybeFlash
  <1>3. LET r == Post(path, c, k)
        IN  /\ r.id = acts + 1 /\ r.flash = None
            /\ r.method = "POST" /\ r.path = path /\ r.bearer = None
            /\ r.token = k /\ r.csrf = c /\ r.cookie = None
    BY DEF Post, Get
  <1> QED
    BY <1>2, <1>3

\* The cookies change nothing else of a request.
WithCookies(r, c, m) == [r EXCEPT !.cookie = c, !.notice = m]

LEMMA CookieFacts ==
    ASSUME NEW r, FromBrowser(r), NEW c \in MaybeToken, NEW m \in MaybeFlash
    PROVE  LET q == WithCookies(r, c, m)
           IN  /\ FromBrowser(q) /\ q \in Request
               /\ q.id = r.id /\ q.flash = r.flash /\ q.token = r.token
               /\ q.csrf = r.csrf /\ q.cookie = c /\ q.notice = m
  <1> DEFINE q == WithCookies(r, c, m)
  <1>1. r \in Request
    BY DEF FromBrowser
  <1>2. q \in Request
    BY <1>1 DEF Request, WithCookies
  <1>3. /\ q.id = r.id /\ q.flash = r.flash /\ q.token = r.token
        /\ q.csrf = r.csrf /\ q.cookie = c /\ q.notice = m
        /\ q.method = r.method /\ q.path = r.path /\ q.bearer = r.bearer
    BY <1>1 DEF Request, WithCookies
  <1> HIDE DEF q
  <1>4. FromBrowser(q)
    BY <1>2, <1>3 DEF FromBrowser
  <1> QED
    BY <1>2, <1>3, <1>4 DEF q

-----------------------------------------------------------------------------
(* The inductive invariant.                                                *)

\* What the tabs hold comes from the browser and its server.
TabsInv ==
    \A t \in Tab :
      /\ pending[t] # None => FromBrowser(pending[t]) /\ view[t] = Blank
      /\ view[t].req # None => FromBrowser(view[t].req)
      /\ answer[t] # None => Shaped(answer[t])

\* The browser holds no token the user has not typed.
Known == typed \cup {None}

KnownInv ==
    /\ cookie \in Known
    /\ \A t \in Tab :
         /\ pending[t] # None => pending[t].cookie \in Known /\ pending[t].token \in Known
         /\ view[t].req # None => view[t].req.token \in Known
         /\ answer[t] # None => answer[t].session \in Known \cup {Same}

\* Tab t holds the form of act a, and can send it again.
Carries(t, a) ==
    \/ pending[t] # None /\ pending[t].id = a
    \/ view[t].req # None /\ view[t].req.id = a

\* m reports on act a.
Of(m, a) == m \notin {None, Same} /\ m.id = a

\* The outcome of a is still on its way to the cookie, in tab t ...
Up(t, a) ==
    \/ Carries(t, a)
    \/ pending[t] # None /\ Of(pending[t].flash, a)
    \/ view[t].req # None /\ Of(view[t].req.flash, a)
    \/ answer[t] # None /\ (Of(answer[t].flash, a) \/ Of(answer[t].notice, a))

\* ... or on its way from the cookie to the screen.
Down(t, a) ==
    \/ pending[t] # None /\ Of(pending[t].notice, a)
    \/ answer[t] # None /\ Of(answer[t].toast, a)

\* Nothing is known of an act before the user has acted.
Fresh ==
    \A a \in Acts : a > acts =>
      /\ times[a] = 0 /\ ~Of(notice, a)
      /\ \A t \in Tab : ~Up(t, a) /\ ~Down(t, a) /\ shown[t][a] = 0

\* One tab at most can bring an outcome into the cookie,
UpOnce == \A a \in Acts, t, u \in Tab : Up(t, a) /\ Up(u, a) => t = u

\* no tab has seen it before,
UpFirst ==
    \A a \in Acts, t, u \in Tab :
      Up(t, a) => ~Of(notice, a) /\ ~Down(u, a) /\ shown[u][a] = 0

\* and who has seen it does not get it again.
SeenOnce ==
    \A a \in Acts, t \in Tab :
      shown[t][a] > 0 => ~Of(notice, a) /\ ~Down(t, a)

\* The form of a change that was not lost is held by nobody, but for the tab
\* that is about to be redirected away from it.
ChangedIsLeft ==
    \A a \in Acts, t \in Tab :
      times[a] > 0 /\ a \notin resent /\ Carries(t, a) =>
        /\ pending[t] # None /\ pending[t].id = a
        /\ answer[t] # None /\ answer[t].to # None

OutcomeInv == Fresh /\ UpOnce /\ UpFirst /\ SeenOnce

GateInv ==
    /\ TypeOK /\ TabsInv /\ KnownInv /\ OutcomeInv /\ ChangedIsLeft
    /\ ChangesAreAuthorised /\ RefreshNeverResends /\ OutcomeShownOncePerTab

-----------------------------------------------------------------------------
(* What every step does to the outcomes: a way up begins with an act, an    *)
(* outcome gets into the cookie at the end of its only way up, down from    *)
(* the cookie only, and is shown at the end of the way down, which deletes  *)
(* the cookie.                                                              *)

LEMMA OutcomeStep ==
    ASSUME TypeOK, TypeOK', OutcomeInv, OutcomeShownOncePerTab, acts <= acts',
           NEW s \in Tab,
           \A a \in Acts, t \in Tab :
             Up(t, a)' => Up(t, a) \/ (acts < a /\ a <= acts' /\ t = s),
           \A a \in Acts : Of(notice', a) =>
             \/ Of(notice, a)
             \/ Up(s, a) /\ \A t \in Tab : ~Up(t, a)',
           \A a \in Acts, t \in Tab : Down(t, a)' =>
             Down(t, a) \/ Of(notice, a) \/ Of(notice', a),
           \A a \in Acts, t \in Tab :
             \/ shown'[t][a] = shown[t][a]
             \/ /\ Down(t, a) /\ shown'[t][a] = shown[t][a] + 1
                /\ ~Of(notice', a) /\ ~Down(t, a)',
           \A a \in Acts : a > acts' => times'[a] = times[a]
    PROVE  OutcomeInv' /\ OutcomeShownOncePerTab'
  <1> USE DEF OutcomeInv
  <1>0. /\ acts \in Nat /\ acts' \in Nat /\ Acts \subseteq Nat
        /\ \A a \in Acts, t \in Tab : shown[t][a] \in Nat /\ shown'[t][a] \in Nat
    BY BoundsAssumption DEF TypeOK, Acts
  <1>1. Fresh'
    BY <1>0 DEF Fresh
  <1>2. UpOnce'
    BY <1>0 DEF Fresh, UpOnce
  <1>3. UpFirst'
    <2>1. SUFFICES ASSUME NEW a \in Acts, NEW t \in Tab, NEW u \in Tab, Up(t, a)'
                   PROVE  ~Of(notice', a) /\ ~Down(u, a)' /\ shown'[u][a] = 0
      BY DEF UpFirst
    <2>2. ~Of(notice, a) /\ ~Down(u, a) /\ shown[u][a] = 0
      BY <1>0, <2>1 DEF Fresh, UpFirst
    <2> QED
      BY <2>1, <2>2
  <1>4. SeenOnce'
    <2>1. SUFFICES ASSUME NEW a \in Acts, NEW t \in Tab, shown'[t][a] > 0
                   PROVE  ~Of(notice', a) /\ ~Down(t, a)'
      BY DEF SeenOnce
    <2>2. CASE shown'[t][a] = shown[t][a]
      <3>1. ~Of(notice, a) /\ ~Down(t, a)
        BY <2>1, <2>2 DEF SeenOnce
      <3>2. ~Up(s, a)
        BY <1>0, <2>1, <2>2 DEF UpFirst
      <3> QED
        BY <3>1, <3>2
    <2> QED
      BY <2>2
  <1>5. OutcomeShownOncePerTab'
    BY <1>0 DEF OutcomeShownOncePerTab, SeenOnce
  <1> QED
    BY <1>1, <1>2, <1>3, <1>4, <1>5

-----------------------------------------------------------------------------
(* What the user does.                                                     *)

\* The request of one act: a page, a form of its own, or the one behind the
\* page that is reloaded.
Begins(t, r) ==
    /\ FromBrowser(r)
    /\ Send(t, r)
    /\ \/ r.id \in {0, acts + 1} /\ r.flash = None
       \/ view[t].req # None /\ r = view[t].req
    /\ r.token \in Known'
    /\ typed \subseteq typed' /\ typed' \subseteq Token

LEMMA UserStep ==
    ASSUME GateInv, NEW t \in Tab,
           Visit(t) \/ Reload(t) \/ LogIn(t) \/ SubmitForm(t)
    PROVE  \E r : Begins(t, r)
  <1> USE DEF GateInv
  <1>1. /\ typed \subseteq Token /\ acts \in Nat
        /\ view[t].csrf \in MaybeToken
    BY BoundsAssumption DEF TypeOK, View
  <1>2. None \in MaybeFlash /\ None \in MaybeToken /\ Token \subseteq MaybeToken
    BY DEF MaybeFlash, MaybeToken
  <1>3. ASSUME Visit(t) PROVE Begins(t, Get("/", None))
    BY <1>1, <1>2, <1>3, GetFacts DEF Begins, Visit, Known
  <1>4. ASSUME Reload(t) PROVE Begins(t, view[t].req)
    BY <1>1, <1>4 DEF Begins, Reload, Known, TabsInv, KnownInv
  <1>5. ASSUME LogIn(t) PROVE \E r : Begins(t, r)
    <2>1. PICK tok \in Token : /\ Send(t, Post("/login", None, tok))
                               /\ typed' = typed \cup {tok}
      BY <1>5 DEF LogIn
    <2> DEFINE r == Post("/login", None, tok)
    <2>2. acts < MaxActs
      BY <2>1 DEF Send
    <2>3. /\ r \in Request /\ r.id = acts + 1 /\ r.flash = None
          /\ r.method = "POST" /\ r.path = "/login" /\ r.bearer = None
          /\ r.token = tok
      BY <1>1, <1>2, <2>2, PostFacts
    <2>4. acts + 1 \in Acts
      BY <1>1, <2>2, BoundsAssumption DEF Acts
    <2> HIDE DEF r
    <2>5. FromBrowser(r)
      BY <2>3, <2>4 DEF FromBrowser
    <2>6. Send(t, r)
      BY <2>1 DEF r
    <2> QED
      BY <1>1, <2>1, <2>3, <2>5, <2>6 DEF Begins, Known
  <1>6. ASSUME SubmitForm(t) PROVE \E r : Begins(t, r)
    <2>1. PICK path \in {"/sites", "/logout"} : Send(t, Post(path, view[t].csrf, None))
      BY <1>6 DEF SubmitForm
    <2> DEFINE r == Post(path, view[t].csrf, None)
    <2>2. acts < MaxActs /\ typed' = typed
      BY <2>1, <1>6 DEF Send, SubmitForm
    <2>3. /\ r \in Request /\ r.id = acts + 1 /\ r.flash = None
          /\ r.method = "POST" /\ r.path = path /\ r.bearer = None
          /\ r.token = None
      BY <1>1, <1>2, <2>2, PostFacts
    <2>4. acts + 1 \in Acts
      BY <1>1, <2>2, BoundsAssumption DEF Acts
    <2> HIDE DEF r
    <2>5. FromBrowser(r)
      BY <2>3, <2>4 DEF FromBrowser
    <2>6. Send(t, r)
      BY <2>1 DEF r
    <2> QED
      BY <1>1, <2>2, <2>3, <2>5, <2>6 DEF Begins, Known
  <1> QED
    BY <1>3, <1>4, <1>5, <1>6

\* The tab waits for the request, which has the cookies of the moment.
LEMMA SendFacts ==
    ASSUME TypeOK, NEW t \in Tab, NEW r, FromBrowser(r), Send(t, r)
    PROVE  LET q == pending'[t]
           IN  /\ pending[t] = None /\ answer[t] = None /\ answer' = answer
               /\ \A u \in Tab \ {t} : pending'[u] = pending[u] /\ view'[u] = view[u]
               /\ pending' \in [Tab -> Request \cup {None}]
               /\ view' \in [Tab -> View] /\ view'[t] = Blank /\ view'[t].req = None
               /\ FromBrowser(q) /\ q # None
               /\ q.id = r.id /\ q.flash = r.flash /\ q.token = r.token
               /\ q.cookie = cookie /\ q.notice = notice
  <1> DEFINE q == WithCookies(r, cookie, notice)
  <1>1. cookie \in MaybeToken /\ notice \in MaybeFlash
    BY DEF TypeOK
  <1>2. /\ FromBrowser(q) /\ q \in Request
        /\ q.id = r.id /\ q.flash = r.flash /\ q.token = r.token
        /\ q.cookie = cookie /\ q.notice = notice
    BY <1>1, CookieFacts
  <1>3. /\ pending[t] = None /\ pending' = [pending EXCEPT ![t] = q]
        /\ view' = [view EXCEPT ![t] = Blank] /\ answer' = answer
    BY DEF Send, WithCookies
  <1> HIDE DEF q
  <1>4. Blank \in View /\ Blank.req = None
    BY DEF Blank, View, Pages, MaybeToken
  <1>5. /\ pending \in [Tab -> Request \cup {None}] /\ view \in [Tab -> View]
        /\ answer[t] = None
    BY <1>3 DEF TypeOK
  <1>6. pending'[t] = q /\ q # None /\ view'[t] = Blank
    BY <1>2, <1>3, <1>5, SentinelAssumption
  <1> QED
    BY <1>2, <1>3, <1>4, <1>5, <1>6

LEMMA SendKeeps ==
    ASSUME GateInv, NEW t \in Tab, NEW r, Begins(t, r)
    PROVE  GateInv'
  <1> DEFINE q == pending'[t]
  <1>1. /\ pending[t] = None /\ answer[t] = None /\ answer' = answer
        /\ \A u \in Tab \ {t} : pending'[u] = pending[u] /\ view'[u] = view[u]
        /\ pending' \in [Tab -> Request \cup {None}]
        /\ view' \in [Tab -> View] /\ view'[t] = Blank /\ view'[t].req = None
        /\ FromBrowser(q) /\ q # None
        /\ q.id = r.id /\ q.flash = r.flash /\ q.token = r.token
        /\ q.cookie = cookie /\ q.notice = notice
    BY SendFacts DEF Begins, GateInv
  <1>2. /\ acts < MaxActs /\ acts' = acts + 1 /\ acts \in Nat
        /\ secret' = secret /\ cookie' = cookie /\ notice' = notice
        /\ shown' = shown /\ troubles' = troubles /\ changes' = changes
        /\ times' = times /\ resent' = resent
        /\ typed \subseteq typed' /\ typed' \subseteq Token
    BY BoundsAssumption DEF Begins, Send, GateInv, TypeOK
  <1>3. TypeOK'
    BY <1>1, <1>2, BoundsAssumption DEF GateInv, TypeOK
  <1>4. TabsInv'
    BY <1>1 DEF GateInv, TabsInv
  <1>5. KnownInv'
    BY <1>1, <1>2 DEF GateInv, KnownInv, Known, Begins
  <1>6. ASSUME NEW a \in Acts PROVE Carries(t, a)' => Carries(t, a) \/ a = acts + 1
    BY <1>1 DEF Begins, Carries, Acts
  <1>7. ASSUME NEW a \in Acts PROVE Up(t, a)' => Up(t, a) \/ a = acts + 1
    BY <1>1, <1>6 DEF Begins, Carries, Up, Of, Acts
  <1>8. ASSUME NEW a \in Acts, NEW u \in Tab \ {t}
        PROVE  /\ Carries(u, a)' = Carries(u, a) /\ Up(u, a)' = Up(u, a)
               /\ Down(u, a)' = Down(u, a)
    BY <1>1 DEF Carries, Up, Down
  <1>9. ASSUME NEW a \in Acts PROVE Down(t, a)' => Of(notice, a)
    BY <1>1 DEF Down
  <1>10. OutcomeInv' /\ OutcomeShownOncePerTab'
    <2>1. TypeOK /\ OutcomeInv /\ OutcomeShownOncePerTab
      BY DEF GateInv
    <2>2. \A a \in Acts, u \in Tab :
             Up(u, a)' => Up(u, a) \/ (acts < a /\ a <= acts' /\ u = t)
      BY <1>2, <1>7, <1>8
    <2>3. \A a \in Acts, u \in Tab : Down(u, a)' => Down(u, a) \/ Of(notice, a)
      BY <1>8, <1>9
    <2> QED
      BY <1>2, <1>3, <2>1, <2>2, <2>3, OutcomeStep
  <1>11. ChangedIsLeft'
    <2>1. SUFFICES ASSUME NEW a \in Acts, NEW u \in Tab, times[a] > 0, a \notin resent,
                          Carries(u, a)'
                   PROVE  /\ pending'[u] # None /\ pending'[u].id = a
                          /\ answer'[u] # None /\ answer'[u].to # None
      BY <1>2 DEF ChangedIsLeft
    <2>2. a # acts + 1
      BY <1>2, <2>1 DEF GateInv, OutcomeInv, Fresh
    <2>3. CASE u = t
      BY <1>1, <1>6, <2>1, <2>2, <2>3 DEF GateInv, ChangedIsLeft
    <2>4. CASE u # t
      BY <1>1, <1>8, <2>1, <2>4 DEF GateInv, ChangedIsLeft
    <2> QED
      BY <2>3, <2>4
  <1>12. ChangesAreAuthorised' /\ RefreshNeverResends'
    BY <1>2 DEF GateInv, ChangesAreAuthorised, RefreshNeverResends
  <1> QED
    BY <1>3, <1>4, <1>5, <1>10, <1>11, <1>12 DEF GateInv

-----------------------------------------------------------------------------
(* What the server and the network do.                                     *)

LEMMA BareFacts ==
    ASSUME NEW r, FromBrowser(r)
    PROVE  /\ FromBrowser(Bare(r)) /\ Bare(r) \in Request /\ Bare(r) # None
           /\ Bare(r).id = r.id /\ Bare(r).flash = r.flash /\ Bare(r).token = r.token
           /\ Bare(r).csrf = r.csrf /\ Bare(r).cookie = None /\ Bare(r).notice = None
  <1>1. Bare(r) = WithCookies(r, None, None)
    BY DEF Bare, WithCookies
  <1>2. None \in MaybeToken /\ None \in MaybeFlash
    BY DEF MaybeToken, MaybeFlash
  <1> QED
    BY <1>1, <1>2, CookieFacts, SentinelAssumption

LEMMA ServeFacts ==
    ASSUME GateInv, NEW t \in Tab, Serve(t)
    PROVE  LET r == pending[t]
               q == pending'[t]
               b == answer'[t]
           IN  /\ r # None /\ r \in Request /\ FromBrowser(r) /\ view[t] = Blank
               /\ answer[t] = None
               /\ q # None /\ FromBrowser(q) /\ q.id = r.id /\ q.flash = r.flash
               /\ q.token = r.token /\ q.cookie = None /\ q.notice = None
               /\ b # None /\ Fits(r, b) /\ Note(r, b)
               /\ pending' \in [Tab -> Request \cup {None}]
               /\ answer' \in [Tab -> Reply \cup {None}]
               /\ \A u \in Tab \ {t} : pending'[u] = pending[u] /\ answer'[u] = answer[u]
  <1> DEFINE r == pending[t]
  <1>1. /\ secret \in MaybeToken
        /\ pending \in [Tab -> Request \cup {None}] /\ answer \in [Tab -> Reply \cup {None}]
    BY DEF GateInv, TypeOK
  <1>2. r # None /\ FromBrowser(r) /\ r \in Request /\ answer[t] = None /\ view[t] = Blank
    BY DEF Serve, GateInv, TabsInv, FromBrowser
  <1>3. PICK b \in Handler(r) : answer' = [answer EXCEPT ![t] = b] /\ Note(r, b)
    BY DEF Serve
  <1>4. Fits(r, b)
    BY <1>1, <1>2, <1>3, HandlerFits
  <1>5. b \in Reply /\ b # None
    BY <1>4, SentinelAssumption DEF Fits
  <1>6. answer'[t] = b /\ answer' \in [Tab -> Reply \cup {None}]
    BY <1>1, <1>3, <1>5
  <1>7. pending' = [pending EXCEPT ![t] = Bare(r)]
    BY DEF Serve
  <1>8. /\ FromBrowser(Bare(r)) /\ Bare(r) \in Request /\ Bare(r) # None
        /\ Bare(r).id = r.id /\ Bare(r).flash = r.flash /\ Bare(r).token = r.token
        /\ Bare(r).cookie = None /\ Bare(r).notice = None
    BY <1>2, BareFacts
  <1>9. pending'[t] = Bare(r) /\ pending' \in [Tab -> Request \cup {None}]
    BY <1>1, <1>7, <1>8
  <1>10. \A u \in Tab \ {t} : pending'[u] = pending[u] /\ answer'[u] = answer[u]
    BY <1>1, <1>3, <1>7
  <1> QED
    BY <1>2, <1>3, <1>4, <1>5, <1>6, <1>8, <1>9, <1>10

LEMMA ServeKeeps ==
    ASSUME GateInv, NEW t \in Tab, Serve(t)
    PROVE  GateInv'
  <1> DEFINE r == pending[t]
             q == pending'[t]
             b == answer'[t]
  <1>1. /\ r # None /\ r \in Request /\ FromBrowser(r) /\ view[t] = Blank
        /\ answer[t] = None
        /\ q # None /\ FromBrowser(q) /\ q.id = r.id /\ q.flash = r.flash
        /\ q.token = r.token /\ q.cookie = None /\ q.notice = None
        /\ b # None /\ Fits(r, b) /\ Note(r, b)
        /\ pending' \in [Tab -> Request \cup {None}]
        /\ answer' \in [Tab -> Reply \cup {None}]
        /\ \A u \in Tab \ {t} : pending'[u] = pending[u] /\ answer'[u] = answer[u]
    BY ServeFacts
  <1>2. /\ acts' = acts /\ secret' = secret /\ cookie' = cookie /\ notice' = notice
        /\ shown' = shown /\ troubles' = troubles /\ view' = view
        /\ typed' = typed /\ resent' = resent
    BY DEF Serve, bounds
  <1>3. /\ r.csrf \in MaybeToken /\ r.bearer = None /\ r.id \in Acts \cup {0}
        /\ secret \in MaybeToken /\ times \in [Acts -> Nat] /\ None \in MaybeToken
    BY <1>1 DEF Request, FromBrowser, GateInv, TypeOK, MaybeToken
  <1>4. /\ b.changed => secret \in Token /\ r.csrf = secret /\ r.cookie = secret
        /\ b.changed => b.to # None
        /\ Shaped(b)
    BY <1>1 DEF Fits
  <1>5. \/ changes' = changes
        \/ /\ b.changed
           /\ changes' = changes \cup {[under |-> secret, bearer |-> None, form |-> r.csrf]}
    BY <1>1, <1>3 DEF Note
  <1>6. /\ times' \in [Acts -> Nat]
        /\ \A a \in Acts :
             times'[a] = times[a] \/ (b.changed /\ r.id = a /\ times'[a] = times[a] + 1)
    BY <1>1, <1>3 DEF Note, Acts
  <1> HIDE DEF r, q, b
  <1>7. TypeOK'
    <2>1. changes' \subseteq [under : MaybeToken, bearer : MaybeToken, form : MaybeToken]
      BY <1>3, <1>5 DEF GateInv, TypeOK
    <2> QED
      BY <1>1, <1>2, <1>6, <2>1 DEF GateInv, TypeOK, q, b
  <1>8. TabsInv'
    BY <1>1, <1>2, <1>4 DEF GateInv, TabsInv, q, b
  <1>9. KnownInv'
    <2>1. r.cookie \in Known /\ r.token \in Known
      BY <1>1 DEF GateInv, KnownInv, r
    <2>2. b.session \in Known \cup {Same}
      BY <1>1, <2>1 DEF Fits, Known
    <2> QED
      BY <1>1, <1>2, <2>1, <2>2 DEF GateInv, KnownInv, Known, q, b
  <1>10. ASSUME NEW a \in Acts
         PROVE  /\ Carries(t, a)' => Carries(t, a) /\ r.id = a
                /\ Up(t, a)' => Up(t, a)
                /\ Down(t, a)' => Down(t, a)
    <2>1. view[t].req = None
      BY <1>1 DEF Blank
    <2>2. Carries(t, a)' => Carries(t, a) /\ r.id = a
      BY <1>1, <1>2, <2>1 DEF Carries, q, r
    <2>3. /\ Of(b.flash, a) => r.id = a
          /\ Of(b.notice, a) => Of(r.flash, a)
          /\ Of(b.toast, a) => Of(r.notice, a)
      BY <1>1 DEF Fits, Of
    <2>4. Up(t, a)' => Up(t, a)
      BY <1>1, <1>2, <2>1, <2>2, <2>3 DEF Carries, Up, q, r, b
    <2>5. Down(t, a)' => Down(t, a)
      <3>1. ~Of(q.notice, a)
        BY <1>1 DEF Of
      <3> QED
        BY <1>1, <1>2, <2>3, <3>1 DEF Down, q, r, b
    <2> QED
      BY <2>2, <2>4, <2>5
  <1>11. ASSUME NEW a \in Acts, NEW u \in Tab \ {t}
         PROVE  /\ Carries(u, a)' = Carries(u, a) /\ Up(u, a)' = Up(u, a)
                /\ Down(u, a)' = Down(u, a)
    BY <1>1, <1>2 DEF Carries, Up, Down
  <1>12. \A a \in Acts : times[a] > 0 /\ a \notin resent => r.id # a
    BY <1>1 DEF GateInv, ChangedIsLeft, Carries, r
  <1>13. OutcomeInv' /\ OutcomeShownOncePerTab'
    <2>1. TypeOK /\ OutcomeInv /\ OutcomeShownOncePerTab
      BY DEF GateInv
    <2>2. \A a \in Acts, u \in Tab :
            (Up(u, a)' => Up(u, a)) /\ (Down(u, a)' => Down(u, a))
      BY <1>10, <1>11
    <2>3. \A a \in Acts : a > acts' => times'[a] = times[a]
      <3>1. SUFFICES ASSUME NEW a \in Acts, a > acts PROVE r.id # a
        BY <1>2, <1>6
      <3> QED
        BY <1>1, <2>1, <3>1 DEF OutcomeInv, Fresh, Up, Carries, r
    <2>4. acts <= acts'
      BY <1>2, <2>1 DEF TypeOK
    <2> QED
      BY <1>2, <1>7, <2>1, <2>2, <2>3, <2>4, OutcomeStep
  <1>14. ChangedIsLeft'
    <2>1. SUFFICES ASSUME NEW a \in Acts, NEW u \in Tab, times'[a] > 0, a \notin resent,
                          Carries(u, a)'
                   PROVE  /\ pending'[u] # None /\ pending'[u].id = a
                          /\ answer'[u] # None /\ answer'[u].to # None
      BY <1>2 DEF ChangedIsLeft
    <2>2. CASE u = t
      <3>1. r.id = a
        BY <1>10, <2>1, <2>2
      <3>2. b.changed
        BY <1>6, <1>12, <2>1, <3>1
      <3> QED
        BY <1>1, <1>4, <2>2, <3>1, <3>2 DEF q, b
    <2>3. CASE u # t
      <3>1. Up(u, a) /\ Carries(u, a)
        BY <1>11, <2>1, <2>3 DEF Up
      <3>2. r.id # a
        BY <1>1, <2>3, <3>1 DEF GateInv, OutcomeInv, UpOnce, Up, Carries, r
      <3> QED
        BY <1>1, <1>6, <2>1, <2>3, <3>1, <3>2 DEF GateInv, ChangedIsLeft
    <2> QED
      BY <2>2, <2>3
  <1>15. ChangesAreAuthorised'
    <2>1. b.changed => secret \in typed
      BY <1>1, <1>4, MarkAssumption DEF GateInv, KnownInv, Known, r
    <2> QED
      BY <1>2, <1>4, <1>5, <2>1 DEF GateInv, ChangesAreAuthorised
  <1>16. RefreshNeverResends'
    BY <1>2, <1>3, <1>6, <1>12 DEF GateInv, RefreshNeverResends
  <1> QED
    BY <1>7, <1>8, <1>9, <1>13, <1>14, <1>15, <1>16 DEF GateInv

LEMMA ReceiveFacts ==
    ASSUME GateInv, NEW t \in Tab, Receive(t)
    PROVE  LET r == pending[t]
               a == answer[t]
           IN  /\ a # None /\ a \in Reply /\ Shaped(a) /\ a.session \in Known \cup {Same}
               /\ r # None /\ FromBrowser(r) /\ r \in Request /\ r.token \in Known
               /\ view[t] = Blank /\ view[t].req = None
               /\ cookie' \in Known /\ cookie' \in MaybeToken
               /\ notice' \in MaybeFlash /\ notice' = Kept(a.notice, notice)
               /\ answer' \in [Tab -> Reply \cup {None}] /\ answer'[t] = None
               /\ \A u \in Tab \ {t} : answer'[u] = answer[u]
               /\ acts' = acts /\ secret' = secret /\ troubles' = troubles
               /\ typed' = typed /\ resent' = resent /\ changes' = changes /\ times' = times
  <1> DEFINE a == answer[t]
  <1>1. /\ a # None /\ cookie' = Kept(a.session, cookie) /\ notice' = Kept(a.notice, notice)
        /\ answer' = [answer EXCEPT ![t] = None]
        /\ acts' = acts /\ secret' = secret /\ troubles' = troubles
        /\ typed' = typed /\ resent' = resent /\ changes' = changes /\ times' = times
    BY DEF Receive, bounds, ledger
  <1>2. /\ a \in Reply /\ pending[t] # None /\ answer \in [Tab -> Reply \cup {None}]
        /\ cookie \in Known /\ notice \in MaybeFlash /\ typed \subseteq Token
    BY <1>1 DEF GateInv, TypeOK, KnownInv
  <1>3. /\ Shaped(a) /\ a.session \in Known \cup {Same}
        /\ FromBrowser(pending[t]) /\ pending[t].token \in Known /\ view[t] = Blank
    BY <1>1, <1>2 DEF GateInv, TabsInv, KnownInv
  <1>4. a.notice \in MaybeFlash \cup {Same}
    BY <1>2 DEF Reply
  <1>5. cookie' \in Known /\ notice' \in MaybeFlash
    BY <1>1, <1>2, <1>3, <1>4 DEF Kept
  <1>6. cookie' \in MaybeToken
    BY <1>2, <1>5 DEF Known, MaybeToken
  <1>7. view[t].req = None /\ pending[t] \in Request
    BY <1>3 DEF Blank, FromBrowser
  <1>8. /\ answer' \in [Tab -> Reply \cup {None}] /\ answer'[t] = None
        /\ \A u \in Tab \ {t} : answer'[u] = answer[u]
    BY <1>1, <1>2
  <1> QED
    BY <1>1, <1>2, <1>3, <1>5, <1>6, <1>7, <1>8

\* The tab follows the redirect: the outcome gets one step nearer to the cookie.
LEMMA RedirectKeeps ==
    ASSUME GateInv, NEW t \in Tab, Receive(t), answer[t].to # None
    PROVE  GateInv'
  <1> DEFINE a == answer[t]
             q == pending'[t]
  <1>1. /\ a # None /\ a \in Reply /\ Shaped(a)
        /\ view[t] = Blank /\ view[t].req = None
        /\ cookie' \in Known /\ cookie' \in MaybeToken
        /\ notice' \in MaybeFlash /\ notice' = Kept(a.notice, notice)
        /\ answer' \in [Tab -> Reply \cup {None}] /\ answer'[t] = None
        /\ \A u \in Tab \ {t} : answer'[u] = answer[u]
        /\ acts' = acts /\ secret' = secret /\ troubles' = troubles
        /\ typed' = typed /\ resent' = resent /\ changes' = changes /\ times' = times
    BY ReceiveFacts
  <1>2. /\ pending' = [pending EXCEPT ![t] = WithCookies(Get(a.to, a.flash), cookie', notice')]
        /\ view' = view /\ shown' = shown
    BY DEF Receive, WithCookies
  <1>3. a.to \in {"/", "/login"} /\ a.flash \in MaybeFlash
    BY <1>1 DEF Reply
  <1>4. /\ FromBrowser(Get(a.to, a.flash)) /\ Get(a.to, a.flash).id = 0
        /\ Get(a.to, a.flash).flash = a.flash /\ Get(a.to, a.flash).token = None
    BY <1>3, GetFacts
  <1>5. pending \in [Tab -> Request \cup {None}]
    BY DEF GateInv, TypeOK
  <1>6. /\ FromBrowser(q) /\ q \in Request /\ q # None
        /\ q.id = 0 /\ q.flash = a.flash /\ q.token = None
        /\ q.cookie = cookie' /\ q.notice = notice'
    BY <1>1, <1>2, <1>4, <1>5, CookieFacts, SentinelAssumption
  <1>7. /\ pending' \in [Tab -> Request \cup {None}]
        /\ \A u \in Tab \ {t} : pending'[u] = pending[u]
    <2>1. pending' = [pending EXCEPT ![t] = q]
      BY <1>2, <1>5
    <2> QED
      BY <1>5, <1>6, <2>1
  <1> HIDE DEF a, q
  <1>8. TypeOK'
    BY <1>1, <1>2, <1>6, <1>7 DEF GateInv, TypeOK, a, q
  <1>9. TabsInv'
    BY <1>1, <1>2, <1>6, <1>7 DEF GateInv, TabsInv, q
  <1>10. KnownInv'
    BY <1>1, <1>2, <1>6, <1>7 DEF GateInv, KnownInv, Known, q
  <1>11. ASSUME NEW x \in Acts
         PROVE  ~Carries(t, x)' /\ (Up(t, x)' => Of(a.flash, x)) /\ (Down(t, x)' => Of(notice', x))
    <2>1. ~Carries(t, x)'
      BY <1>1, <1>2, <1>6 DEF Carries, Acts, q
    <2> QED
      BY <1>1, <1>2, <1>6, <2>1 DEF Up, Down, q
  <1>12. ASSUME NEW x \in Acts, NEW u \in Tab \ {t}
         PROVE  /\ Carries(u, x)' = Carries(u, x) /\ Up(u, x)' = Up(u, x)
                /\ Down(u, x)' = Down(u, x)
    BY <1>1, <1>2, <1>7 DEF Carries, Up, Down
  <1>13. \A x \in Acts : Of(a.flash, x) \/ Of(a.notice, x) => Up(t, x)
    BY <1>1 DEF Up, a
  <1>14. OutcomeInv' /\ OutcomeShownOncePerTab'
    <2>1. TypeOK /\ OutcomeInv /\ OutcomeShownOncePerTab
      BY DEF GateInv
    <2>2. \A x \in Acts, u \in Tab :
            /\ Up(u, x)' => Up(u, x)
            /\ Down(u, x)' => Down(u, x) \/ Of(notice', x)
      BY <1>11, <1>12, <1>13
    <2>3. ASSUME NEW x \in Acts, Of(notice', x), ~Of(notice, x)
          PROVE  Up(t, x) /\ \A u \in Tab : ~Up(u, x)'
      <3>1. Of(a.notice, x)
        BY <1>1, <2>3 DEF Kept
      <3>2. a.flash = None
        BY <1>1, <3>1 DEF Shaped, Of
      <3>3. ~Up(t, x)' /\ Up(t, x)
        BY <1>11, <1>13, <3>1, <3>2 DEF Of
      <3> QED
        BY <1>12, <2>1, <3>3 DEF OutcomeInv, UpOnce
    <2>4. acts <= acts'
      BY <1>1, <2>1 DEF TypeOK
    <2> QED
      BY <1>1, <1>2, <1>8, <2>1, <2>2, <2>3, <2>4, OutcomeStep
  <1>15. ChangedIsLeft'
    <2>1. SUFFICES ASSUME NEW x \in Acts, NEW u \in Tab, times[x] > 0, x \notin resent,
                          Carries(u, x)'
                   PROVE  /\ pending'[u] # None /\ pending'[u].id = x
                          /\ answer'[u] # None /\ answer'[u].to # None
      BY <1>1 DEF ChangedIsLeft
    <2>2. u # t /\ Carries(u, x)
      BY <1>11, <1>12, <2>1
    <2> QED
      BY <1>1, <1>7, <2>1, <2>2 DEF GateInv, ChangedIsLeft
  <1>16. ChangesAreAuthorised' /\ RefreshNeverResends'
    BY <1>1 DEF GateInv, ChangesAreAuthorised, RefreshNeverResends
  <1> QED
    BY <1>8, <1>9, <1>10, <1>14, <1>15, <1>16 DEF GateInv

\* The tab displays the page: the toast is shown, and its cookie is gone.
LEMMA DisplayKeeps ==
    ASSUME GateInv, NEW t \in Tab, Receive(t), answer[t].to = None
    PROVE  GateInv'
  <1> DEFINE a == answer[t]
             r == pending[t]
             w == view'[t]
  <1>1. /\ a # None /\ a \in Reply /\ Shaped(a)
        /\ r # None /\ FromBrowser(r) /\ r \in Request /\ r.token \in Known
        /\ view[t] = Blank /\ view[t].req = None
        /\ cookie' \in Known /\ cookie' \in MaybeToken
        /\ notice' \in MaybeFlash /\ notice' = Kept(a.notice, notice)
        /\ answer' \in [Tab -> Reply \cup {None}] /\ answer'[t] = None
        /\ \A u \in Tab \ {t} : answer'[u] = answer[u]
        /\ acts' = acts /\ secret' = secret /\ troubles' = troubles
        /\ typed' = typed /\ resent' = resent /\ changes' = changes /\ times' = times
    BY ReceiveFacts
  <1>2. /\ pending' = [pending EXCEPT ![t] = None]
        /\ view' = [view EXCEPT ![t] = [page |-> a.page, csrf |-> a.csrf, req |-> r]]
        /\ shown' = IF a.toast = None THEN shown
                    ELSE [shown EXCEPT ![t][a.toast.id] = @ + 1]
    BY DEF Receive
  <1>3. a.toast \in MaybeFlash /\ a.page \in Pages /\ a.csrf \in MaybeToken
    BY <1>1 DEF Reply
  <1>4. /\ pending \in [Tab -> Request \cup {None}] /\ view \in [Tab -> View]
        /\ shown \in [Tab -> [Acts -> Nat]]
    BY DEF GateInv, TypeOK
  <1>5. w.req = r /\ view' \in [Tab -> View]
    BY <1>1, <1>2, <1>3, <1>4 DEF View
  <1>6. /\ pending' \in [Tab -> Request \cup {None}] /\ pending'[t] = None
        /\ \A u \in Tab \ {t} : pending'[u] = pending[u] /\ view'[u] = view[u]
    BY <1>2, <1>4
  <1>7. /\ shown' \in [Tab -> [Acts -> Nat]]
        /\ \A u \in Tab, x \in Acts :
             \/ shown'[u][x] = shown[u][x]
             \/ u = t /\ a.toast # None /\ a.toast.id = x /\ shown'[u][x] = shown[u][x] + 1
    <2>1. CASE a.toast = None
      BY <1>2, <1>4, <2>1
    <2>2. CASE a.toast # None
      <3>1. a.toast.id \in Acts
        BY <1>3, <2>2 DEF MaybeFlash, Flash
      <3>2. shown' = [shown EXCEPT ![t][a.toast.id] = @ + 1]
        BY <1>2, <2>2
      <3> QED
        BY <1>4, <2>2, <3>1, <3>2
    <2> QED
      BY <2>1, <2>2
  <1>8. /\ a.toast # None => notice' = None
        /\ notice' \in {notice, None}
    BY <1>1, SentinelAssumption DEF Shaped, Kept
  <1> HIDE DEF a, r, w
  <1>9. TypeOK'
    BY <1>1, <1>5, <1>6, <1>7 DEF GateInv, TypeOK
  <1>10. TabsInv'
    BY <1>1, <1>5, <1>6 DEF GateInv, TabsInv, w
  <1>11. KnownInv'
    BY <1>1, <1>5, <1>6 DEF GateInv, KnownInv, Known, w
  <1>12. ASSUME NEW x \in Acts
         PROVE  /\ Carries(t, x)' => r.id = x /\ Carries(t, x)
                /\ Up(t, x)' => Up(t, x)
                /\ ~Down(t, x)'
    <2>1. Carries(t, x)' => r.id = x /\ Carries(t, x)
      BY <1>1, <1>5, <1>6 DEF Carries, w, r
    <2> QED
      BY <1>1, <1>5, <1>6, <2>1 DEF Up, Down, w, r
  <1>13. ASSUME NEW x \in Acts, NEW u \in Tab \ {t}
         PROVE  /\ Carries(u, x)' = Carries(u, x) /\ Up(u, x)' = Up(u, x)
                /\ Down(u, x)' = Down(u, x)
    BY <1>1, <1>6 DEF Carries, Up, Down
  <1>14. OutcomeInv' /\ OutcomeShownOncePerTab'
    <2>1. TypeOK /\ OutcomeInv /\ OutcomeShownOncePerTab
      BY DEF GateInv
    <2>2. \A x \in Acts, u \in Tab :
            (Up(u, x)' => Up(u, x)) /\ (Down(u, x)' => Down(u, x))
      BY <1>12, <1>13
    <2>3. \A x \in Acts : Of(notice', x) => Of(notice, x)
      BY <1>8 DEF Of
    <2>4. ASSUME NEW x \in Acts, NEW u \in Tab, shown'[u][x] # shown[u][x]
          PROVE  /\ Down(u, x) /\ shown'[u][x] = shown[u][x] + 1
                 /\ ~Of(notice', x) /\ ~Down(u, x)'
      <3>1. u = t /\ a.toast # None /\ a.toast.id = x /\ shown'[u][x] = shown[u][x] + 1
        BY <1>7, <2>4
      <3>2. Of(a.toast, x)
        BY <1>3, <3>1, SentinelAssumption DEF Of, MaybeFlash
      <3>3. ~Of(notice', x)
        BY <1>8, <3>1 DEF Of
      <3> QED
        BY <1>1, <1>12, <3>1, <3>2, <3>3 DEF Down, a
    <2>5. acts <= acts'
      BY <1>1, <2>1 DEF TypeOK
    <2> QED
      BY <1>1, <1>9, <2>1, <2>2, <2>3, <2>4, <2>5, OutcomeStep
  <1>15. ChangedIsLeft'
    <2>1. SUFFICES ASSUME NEW x \in Acts, NEW u \in Tab, times[x] > 0, x \notin resent,
                          Carries(u, x)'
                   PROVE  /\ pending'[u] # None /\ pending'[u].id = x
                          /\ answer'[u] # None /\ answer'[u].to # None
      BY <1>1 DEF ChangedIsLeft
    <2>2. u # t
      BY <1>12, <2>1 DEF GateInv, ChangedIsLeft
    <2>3. Carries(u, x)
      BY <1>13, <2>1, <2>2
    <2> QED
      BY <1>1, <1>6, <2>1, <2>2, <2>3 DEF GateInv, ChangedIsLeft
  <1>16. ChangesAreAuthorised' /\ RefreshNeverResends'
    BY <1>1 DEF GateInv, ChangesAreAuthorised, RefreshNeverResends
  <1> QED
    BY <1>9, <1>10, <1>11, <1>14, <1>15, <1>16 DEF GateInv

\* An answer is lost: the tab keeps the form, and may send it again.
LEMMA LoseKeeps ==
    ASSUME GateInv, NEW t \in Tab, Lose(t)
    PROVE  GateInv'
  <1> DEFINE r == pending[t]
             w == view'[t]
  <1>1. /\ r # None /\ troubles' = troubles + 1 /\ troubles < MaxTroubles
        /\ pending' = [pending EXCEPT ![t] = None]
        /\ answer' = [answer EXCEPT ![t] = None]
        /\ view' = [view EXCEPT ![t] = [page |-> "lost", csrf |-> None, req |-> Bare(r)]]
        /\ resent' = resent \cup ({r.id} \ {0})
        /\ secret' = secret /\ cookie' = cookie /\ notice' = notice /\ shown' = shown
        /\ acts' = acts /\ typed' = typed /\ changes' = changes /\ times' = times
    BY DEF Lose, Trouble
  <1>2. FromBrowser(r) /\ r \in Request /\ r.token \in Known /\ view[t].req = None
    BY <1>1 DEF GateInv, TabsInv, KnownInv, FromBrowser, Blank
  <1>3. /\ FromBrowser(Bare(r)) /\ Bare(r) \in Request /\ Bare(r) # None
        /\ Bare(r).id = r.id /\ Bare(r).flash = r.flash /\ Bare(r).token = r.token
    BY <1>2, BareFacts
  <1>4. /\ pending \in [Tab -> Request \cup {None}] /\ view \in [Tab -> View]
        /\ answer \in [Tab -> Reply \cup {None}] /\ resent \subseteq Acts
        /\ troubles \in 0..MaxTroubles
    BY DEF GateInv, TypeOK
  <1>5. w.req = Bare(r) /\ view' \in [Tab -> View]
    BY <1>1, <1>3, <1>4 DEF View, Pages, MaybeToken
  <1>6. /\ pending' \in [Tab -> Request \cup {None}] /\ pending'[t] = None
        /\ answer' \in [Tab -> Reply \cup {None}] /\ answer'[t] = None
        /\ \A u \in Tab \ {t} : /\ pending'[u] = pending[u] /\ view'[u] = view[u]
                                /\ answer'[u] = answer[u]
    BY <1>1, <1>4
  <1>7. resent' \subseteq Acts /\ troubles' \in 0..MaxTroubles
    <2>1. r.id \in Acts \cup {0}
      BY <1>2 DEF Request
    <2> QED
      BY <1>1, <1>4, <2>1, BoundsAssumption
  <1> HIDE DEF r, w
  <1>8. TypeOK'
    BY <1>1, <1>5, <1>6, <1>7 DEF GateInv, TypeOK
  <1>9. TabsInv'
    BY <1>3, <1>5, <1>6 DEF GateInv, TabsInv, w
  <1>10. KnownInv'
    BY <1>1, <1>2, <1>3, <1>5, <1>6 DEF GateInv, KnownInv, Known, w
  <1>11. ASSUME NEW x \in Acts
         PROVE  /\ Carries(t, x)' => r.id = x /\ Carries(t, x)
                /\ Up(t, x)' => Up(t, x)
                /\ ~Down(t, x)'
    <2>1. Carries(t, x)' => r.id = x /\ Carries(t, x)
      BY <1>1, <1>3, <1>5, <1>6 DEF Carries, w, r
    <2> QED
      BY <1>1, <1>3, <1>5, <1>6, <2>1 DEF Up, Down, w, r
  <1>12. ASSUME NEW x \in Acts, NEW u \in Tab \ {t}
         PROVE  /\ Carries(u, x)' = Carries(u, x) /\ Up(u, x)' = Up(u, x)
                /\ Down(u, x)' = Down(u, x)
    BY <1>6 DEF Carries, Up, Down
  <1>13. OutcomeInv' /\ OutcomeShownOncePerTab'
    <2>1. TypeOK /\ OutcomeInv /\ OutcomeShownOncePerTab
      BY DEF GateInv
    <2>2. \A x \in Acts, u \in Tab :
            (Up(u, x)' => Up(u, x)) /\ (Down(u, x)' => Down(u, x))
      BY <1>11, <1>12
    <2>3. acts <= acts'
      BY <1>1, <2>1 DEF TypeOK
    <2> QED
      BY <1>1, <1>8, <2>1, <2>2, <2>3, OutcomeStep
  <1>14. ChangedIsLeft'
    <2>1. SUFFICES ASSUME NEW x \in Acts, NEW u \in Tab, times[x] > 0, x \notin resent',
                          Carries(u, x)'
                   PROVE  /\ pending'[u] # None /\ pending'[u].id = x
                          /\ answer'[u] # None /\ answer'[u].to # None
      BY <1>1 DEF ChangedIsLeft
    <2>2. u # t
      BY <1>1, <1>11, <2>1 DEF Acts
    <2>3. Carries(u, x) /\ x \notin resent
      BY <1>1, <1>12, <2>1, <2>2
    <2> QED
      BY <1>6, <2>1, <2>2, <2>3 DEF GateInv, ChangedIsLeft
  <1>15. ChangesAreAuthorised' /\ RefreshNeverResends'
    BY <1>1 DEF GateInv, ChangesAreAuthorised, RefreshNeverResends
  <1> QED
    BY <1>8, <1>9, <1>10, <1>13, <1>14, <1>15 DEF GateInv

\* What happens outside the tabs can only take the cookies away.
LEMMA TabsUntouched ==
    ASSUME GateInv, TypeOK', ChangesAreAuthorised',
           pending' = pending, answer' = answer, view' = view, shown' = shown,
           acts <= acts', typed' = typed, times' = times, resent' = resent,
           cookie' \in {cookie, None}, notice' \in {notice, None}
    PROVE  GateInv'
  <1>1. TabsInv' /\ KnownInv'
    BY DEF GateInv, TabsInv, KnownInv, Known
  <1>2. ASSUME NEW x \in Acts, NEW u \in Tab
        PROVE  /\ Carries(u, x)' = Carries(u, x) /\ Up(u, x)' = Up(u, x)
               /\ Down(u, x)' = Down(u, x)
    BY DEF Carries, Up, Down
  <1>3. \A x \in Acts : Of(notice', x) => Of(notice, x)
    BY DEF Of
  <1>4. /\ acts \in Nat /\ acts' \in Nat /\ Acts \subseteq Nat
    BY BoundsAssumption DEF GateInv, TypeOK, Acts
  <1>5. OutcomeInv'
    <2>1. Fresh'
      <3>1. SUFFICES ASSUME NEW a \in Acts, a > acts'
                     PROVE  /\ times[a] = 0 /\ ~Of(notice', a)
                            /\ \A u \in Tab : ~Up(u, a)' /\ ~Down(u, a)' /\ shown[u][a] = 0
        BY DEF Fresh
      <3>2. a > acts
        BY <1>4, <3>1
      <3> QED
        BY <1>2, <1>3, <3>2 DEF GateInv, OutcomeInv, Fresh
    <2>2. UpOnce' /\ UpFirst' /\ SeenOnce'
      BY <1>2, <1>3 DEF GateInv, OutcomeInv, UpOnce, UpFirst, SeenOnce
    <2> QED
      BY <2>1, <2>2 DEF OutcomeInv
  <1>6. ChangedIsLeft'
    BY <1>2 DEF GateInv, ChangedIsLeft
  <1>7. OutcomeShownOncePerTab' /\ RefreshNeverResends'
    BY DEF GateInv, OutcomeShownOncePerTab, RefreshNeverResends
  <1> QED
    BY <1>1, <1>5, <1>6, <1>7 DEF GateInv

LEMMA ScriptKeeps ==
    ASSUME GateInv, Script PROVE GateInv'
  <1>1. /\ acts < MaxActs /\ acts' = acts + 1 /\ acts \in Nat /\ secret \in MaybeToken
        /\ secret' = secret /\ troubles' = troubles /\ typed' = typed /\ resent' = resent
        /\ cookie' = cookie /\ notice' = notice /\ pending' = pending
        /\ answer' = answer /\ view' = view /\ shown' = shown
    BY BoundsAssumption DEF Script, browser, GateInv, TypeOK
  <1>2. PICK path \in {"/api", "/sites"}, k \in MaybeToken :
          LET r == [Post(path, None, None) EXCEPT !.bearer = k, !.id = 0]
          IN \E reply \in Handler(r) : Note(r, reply)
    BY DEF Script
  <1> DEFINE p == Post(path, None, None)
             r == [p EXCEPT !.bearer = k, !.id = 0]
  <1>3. None \in MaybeToken
    BY DEF MaybeToken
  <1>4. /\ p \in Request /\ p.method = "POST" /\ p.path = path /\ p.csrf = None
        /\ p.cookie = None
    BY <1>1, <1>3, PostFacts
  <1>5. PICK b \in Handler(r) : Note(r, b)
    BY <1>2
  <1> HIDE DEF p
  <1>6. /\ r \in Request /\ r.method = "POST" /\ r.path = path /\ r.csrf = None
        /\ r.cookie = None /\ r.id = 0 /\ r.bearer = k
    BY <1>4 DEF Request
  <1> HIDE DEF r
  <1>7. b.changed => secret \in Token /\ k = secret
    BY <1>1, <1>5, <1>6, ScriptFits
  <1>8. times' = times
    BY <1>5, <1>6 DEF Note
  <1>9. \/ changes' = changes
        \/ /\ b.changed
           /\ changes' = changes \cup {[under |-> secret, bearer |-> k, form |-> None]}
    BY <1>5, <1>6 DEF Note
  <1>10. TypeOK'
    <2>1. changes' \subseteq [under : MaybeToken, bearer : MaybeToken, form : MaybeToken]
      BY <1>1, <1>3, <1>9 DEF GateInv, TypeOK
    <2> QED
      BY <1>1, <1>8, <2>1, BoundsAssumption DEF GateInv, TypeOK
  <1>11. ChangesAreAuthorised'
    BY <1>1, <1>7, <1>9 DEF GateInv, ChangesAreAuthorised
  <1> QED
    BY <1>1, <1>8, <1>10, <1>11, TabsUntouched

LEMMA RestartKeeps ==
    ASSUME GateInv, Restart PROVE GateInv'
  <1>1. /\ troubles < MaxTroubles /\ troubles' = troubles + 1 /\ secret' \in MaybeToken
        /\ acts' = acts /\ typed' = typed /\ resent' = resent /\ changes' = changes
        /\ cookie' = cookie /\ notice' = notice /\ pending' = pending /\ times' = times
        /\ answer' = answer /\ view' = view /\ shown' = shown
    BY DEF Restart, Trouble, browser, ledger
  <1>2. TypeOK' /\ acts <= acts'
    BY <1>1, BoundsAssumption DEF GateInv, TypeOK
  <1>3. ChangesAreAuthorised'
    BY <1>1 DEF GateInv, ChangesAreAuthorised
  <1> QED
    BY <1>1, <1>2, <1>3, TabsUntouched

LEMMA ExpireKeeps ==
    ASSUME GateInv, Expire PROVE GateInv'
  <1>1. /\ troubles < MaxTroubles /\ troubles' = troubles + 1 /\ secret' = secret
        /\ acts' = acts /\ typed' = typed /\ resent' = resent /\ changes' = changes
        /\ cookie' \in {cookie, None} /\ notice' \in {notice, None}
        /\ pending' = pending /\ times' = times
        /\ answer' = answer /\ view' = view /\ shown' = shown
    BY DEF Expire, Trouble, ledger
  <1>2. TypeOK' /\ acts <= acts'
    BY <1>1, BoundsAssumption DEF GateInv, TypeOK, MaybeToken, MaybeFlash
  <1>3. ChangesAreAuthorised'
    BY <1>1 DEF GateInv, ChangesAreAuthorised
  <1> QED
    BY <1>1, <1>2, <1>3, TabsUntouched

-----------------------------------------------------------------------------
(* The theorems.                                                           *)

LEMMA InitGate == Init => GateInv
  <1> SUFFICES ASSUME Init PROVE GateInv
    OBVIOUS
  <1> DEFINE g == Get("/", None)
             w == [page |-> "index", csrf |-> cookie, req |-> g]
  <1>1. /\ FromBrowser(g) /\ g \in Request /\ g # None
        /\ g.id = 0 /\ g.flash = None /\ g.token = None
    <2>1. None \in MaybeFlash
      BY DEF MaybeFlash
    <2> QED
      BY <2>1, GetFacts, SentinelAssumption
  <1> HIDE DEF g
  <1>2. cookie \in MaybeToken /\ typed = {cookie} \ {None} /\ typed \subseteq Token
    BY MarkAssumption DEF Init, MaybeToken
  <1>3. Blank \in View /\ Blank.req = None /\ w \in View /\ w.req = g
    BY <1>1, <1>2 DEF Blank, View, Pages, MaybeToken
  <1>4. view = [t \in Tab |-> IF cookie = None THEN Blank ELSE w]
    BY DEF Init, g
  <1> HIDE DEF w
  <1>5. \A t \in Tab : /\ pending[t] = None /\ answer[t] = None
                       /\ view[t] \in View /\ view[t].req \in {g, None}
    BY <1>3, <1>4 DEF Init
  <1>6. TypeOK
    <2>1. view \in [Tab -> View]
      BY <1>3, <1>4
    <2>2. notice \in MaybeFlash /\ secret \in MaybeToken /\ 0 \in 0..MaxActs /\ 0 \in 0..MaxTroubles
      BY BoundsAssumption DEF Init, MaybeFlash
    <2> QED
      BY <1>2, <1>5, <2>1, <2>2 DEF Init, TypeOK
  <1>7. TabsInv
    BY <1>1, <1>5 DEF TabsInv
  <1>8. KnownInv
    BY <1>1, <1>2, <1>5 DEF KnownInv, Known
  <1>9. ASSUME NEW a \in Acts, NEW t \in Tab
        PROVE  ~Carries(t, a) /\ ~Up(t, a) /\ ~Down(t, a) /\ ~Of(notice, a)
               /\ times[a] = 0 /\ shown[t][a] = 0
    <2>1. times[a] = 0 /\ shown[t][a] = 0 /\ ~Of(notice, a)
      BY DEF Init, Of
    <2>2. ~Carries(t, a)
      BY <1>1, <1>5 DEF Carries, Acts
    <2> QED
      BY <1>1, <1>5, <2>1, <2>2 DEF Up, Down, Of
  <1>10. \A a \in Acts : times[a] = 0 /\ ~Of(notice, a)
    BY DEF Init, Of
  <1>11. OutcomeInv /\ ChangedIsLeft
    BY <1>9, <1>10 DEF OutcomeInv, Fresh, UpOnce, UpFirst, SeenOnce, ChangedIsLeft
  <1>12. ChangesAreAuthorised /\ RefreshNeverResends /\ OutcomeShownOncePerTab
    BY <1>9, <1>10 DEF Init, ChangesAreAuthorised, RefreshNeverResends, OutcomeShownOncePerTab
  <1> QED
    BY <1>6, <1>7, <1>8, <1>11, <1>12 DEF GateInv

LEMMA NextGate == GateInv /\ [Next]_vars => GateInv'
  <1> SUFFICES ASSUME GateInv, [Next]_vars PROVE GateInv'
    OBVIOUS
  <1>1. ASSUME NEW t \in Tab, Visit(t) \/ Reload(t) \/ LogIn(t) \/ SubmitForm(t)
        PROVE  GateInv'
    BY <1>1, UserStep, SendKeeps
  <1>2. ASSUME NEW t \in Tab, Serve(t) PROVE GateInv'
    BY <1>2, ServeKeeps
  <1>3. ASSUME NEW t \in Tab, Receive(t) PROVE GateInv'
    BY <1>3, RedirectKeeps, DisplayKeeps
  <1>4. ASSUME NEW t \in Tab, Lose(t) PROVE GateInv'
    BY <1>4, LoseKeeps
  <1>5. CASE UNCHANGED vars
    <2>1. /\ secret' = secret /\ troubles' = troubles
          /\ acts' = acts /\ typed' = typed /\ resent' = resent /\ changes' = changes
          /\ cookie' = cookie /\ notice' = notice /\ pending' = pending /\ times' = times
          /\ answer' = answer /\ view' = view /\ shown' = shown
      BY <1>5 DEF vars, browser, bounds, ledger
    <2>2. TypeOK' /\ acts <= acts'
      BY <2>1 DEF GateInv, TypeOK
    <2>3. ChangesAreAuthorised'
      BY <2>1 DEF GateInv, ChangesAreAuthorised
    <2> QED
      BY <2>1, <2>2, <2>3, TabsUntouched
  <1> QED
    BY <1>1, <1>2, <1>3, <1>4, <1>5, ScriptKeeps, RestartKeeps, ExpireKeeps DEF Next

\* Every variable of the gate keeps its type, and only a request that a tab
\* waits for has an answer under way, for any number of tabs and tokens.
THEOREM TypeCorrect == Spec => []TypeOK
  <1>1. GateInv => TypeOK
    BY DEF GateInv
  <1> QED
    BY <1>1, InitGate, NextGate, PTL DEF Spec

\* Session, CSRF and BearerAPI let nothing through that the token in force does
\* not cover: a form needs a cookie and a page of that token in a browser whose
\* user has typed it, whatever cookies and pages a rotation has left behind.
THEOREM ChangesAuthorised == Spec => []ChangesAreAuthorised
  <1>1. GateInv => ChangesAreAuthorised
    BY DEF GateInv
  <1> QED
    BY <1>1, InitGate, NextGate, PTL DEF Spec

\* redirectAfterForm: after the 303 no tab holds the form any more, so that no
\* reload repeats a change unless its answer was lost.
THEOREM NoRefreshResends == Spec => []RefreshNeverResends
  <1>1. GateInv => RefreshNeverResends
    BY DEF GateInv
  <1> QED
    BY <1>1, InitGate, NextGate, PTL DEF Spec

\* takeFlashCookie: no tab shows the outcome of an act twice, although the
\* cookie is shared by all tabs and may be read by several of them.
THEOREM OutcomeShownOnce == Spec => []OutcomeShownOncePerTab
  <1>1. GateInv => OutcomeShownOncePerTab
    BY DEF GateInv
  <1> QED
    BY <1>1, InitGate, NextGate, PTL DEF Spec
=============================================================================
