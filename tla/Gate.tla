-------------------------------- MODULE Gate --------------------------------
(***************************************************************************)
(* The front door of caddy-waf-ui: the handler tree of buildHandler (login *)
(* pages, session, CSRF, rate limit, bearer) and the browser in front of   *)
(* it, whose tabs share one cookie jar.  The server keeps no session: all  *)
(* it knows is CADDY_UI_TOKEN, and the state is in what it has put into    *)
(* the browser, which can be older than the process that reads it.         *)
(*                                                                         *)
(* A request is sent, served and answered in three steps: in between, the  *)
(* other tabs move, the process may be restarted with another token,       *)
(* cookies expire and the answer may be lost.  The chain behind a form is  *)
(* one step here (module Chain has its own steps) with two outcomes.       *)
(***************************************************************************)
EXTENDS Naturals, FiniteSets

CONSTANTS
    Tab,          \* tabs of one browser
    Token,        \* the values CADDY_UI_TOKEN takes
    Old,          \* the token of the browser's last session
    None,         \* no token, no cookie, no request ...
    Same,         \* an answer without a Set-Cookie for that cookie
    MaxActs,      \* bound on what the user does
    MaxTroubles   \* bound on restarts, expired cookies and lost answers

ASSUME BoundsAssumption ==
    MaxActs \in Nat /\ MaxTroubles \in Nat
ASSUME MarkAssumption == Old \in Token /\ None \notin Token /\ Same \notin Token

Acts == 1..MaxActs
MaybeToken == Token \cup {None}

\* A flash message; id tells which act of the user it reports on (auxiliary).
Flash == [key : {"success", "error", "invalid_login", "logged_out"}, id : Acts]
MaybeFlash == Flash \cup {None}

\* The two cookies are the ones the request carries when it is sent.
Request ==
    [method : {"GET", "POST"},
     path : {"/", "/login", "/sites", "/logout", "/api"},
     flash : MaybeFlash, csrf : MaybeToken, token : MaybeToken,
     id : Acts \cup {0}, bearer : MaybeToken,
     cookie : MaybeToken, notice : MaybeFlash]

Pages == {"blank", "index", "login", "forbidden", "unauthorized", "limited", "lost"}

\* An answer: a page, or the redirect to a path; the cookies it sets; whether
\* the handler has changed the configuration.
Reply ==
    [to : {None, "/", "/login"}, flash : MaybeFlash, page : Pages,
     csrf : MaybeToken, toast : MaybeFlash, changed : BOOLEAN,
     session : MaybeToken \cup {Same}, notice : MaybeFlash \cup {Same}]

\* What a tab displays: a page, the CSRF value in its forms, and the request a
\* reload repeats.
View == [page : Pages, csrf : MaybeToken, req : Request \cup {None}]

\* None and Same stand for nothing that is there.
ASSUME SentinelAssumption ==
    /\ None # Same /\ None \notin {"/", "/login"}
    /\ None \notin Request /\ None \notin Reply
    /\ None \notin Flash /\ Same \notin Flash

VARIABLES
    secret,    \* CADDY_UI_TOKEN of the running process
    cookie,    \* the session cookie
    notice,    \* the ui_flash cookie
    pending,   \* the request each tab waits for
    answer,    \* the answer under way to it
    view,      \* what each tab displays
    acts,      \* how often the user (or a script) has acted
    troubles,  \* restarts, expired cookies and lost answers so far
    typed,     \* auxiliary: the tokens the user has logged in with
    changes,   \* auxiliary: under which token each change was made, and how
    times,     \* auxiliary: how often the form of an act has changed something
    resent,    \* auxiliary: acts whose answer was lost
    shown      \* auxiliary: how often a tab has shown the outcome of an act

browser == <<cookie, notice, pending, answer, view, shown>>
bounds  == <<acts, troubles>>
ledger  == <<typed, changes, times, resent>>
vars    == <<secret, browser, bounds, ledger>>

Get(path, flash) ==
    [method |-> "GET", path |-> path, flash |-> flash, csrf |-> None,
     token |-> None, id |-> 0, bearer |-> None, cookie |-> None, notice |-> None]

Blank == [page |-> "blank", csrf |-> None, req |-> None]

\* A process has just started; the browser may still have the session and the
\* pages of an earlier one, which had the same token or another.
Init ==
    /\ secret \in MaybeToken
    /\ cookie \in {None, Old}
    /\ notice = None
    /\ pending = [t \in Tab |-> None]
    /\ answer = [t \in Tab |-> None]
    /\ view = [t \in Tab |-> IF cookie = None THEN Blank ELSE
                 [page |-> "index", csrf |-> cookie, req |-> Get("/", None)]]
    /\ acts = 0 /\ troubles = 0
    /\ typed = {cookie} \ {None}
    /\ changes = {} /\ resent = {}
    /\ times = [a \in Acts |-> 0]
    /\ shown = [t \in Tab |-> [a \in Acts |-> 0]]

-----------------------------------------------------------------------------
(* The server: the set of answers to a request, handler by handler.        *)

\* An unset token never validates, an empty credential neither.
tokenMatches(x) == secret # None /\ x # None /\ x = secret

HasValidSession(r) == tokenMatches(r.cookie) \/ tokenMatches(r.bearer)

Page(p) ==
    [to |-> None, flash |-> None, page |-> p, csrf |-> None, toast |-> None,
     changed |-> FALSE, session |-> Same, notice |-> Same]

Redirect(path, flash) == [Page("blank") EXCEPT !.to = path, !.flash = flash]

\* The cookies an answer sets.
SetSessionCookie(reply) == [reply EXCEPT !.session = secret]

\* Mutant: the session cookie is emptied, and stays for want of a Max-Age.
LogoutWithoutMaxAge(reply) == [reply EXCEPT !.session = ""]

Logout(reply) == [reply EXCEPT !.session = None]

setFlashCookie(reply, flash) == [reply EXCEPT !.notice = flash]

\* Mutant: the cookie is read and not deleted.
ReadFlashCookie(r, reply) == [reply EXCEPT !.toast = r.notice]

\* The toast comes from the cookie, which is deleted: it is shown once.
takeFlashCookie(r, reply) ==
    IF r.notice = None THEN reply
    ELSE [reply EXCEPT !.toast = r.notice, !.notice = None]

\* A ?flash= moves into the cookie with a redirect to the clean URL.  The index
\* carries CSRFValue, the HMAC of the token ("" if unset).
HandleIndex(r) ==
    IF r.flash # None
    THEN setFlashCookie(Redirect("/", None), r.flash)
    ELSE takeFlashCookie(r, [Page("index") EXCEPT !.csrf = secret])

\* Mutant: any session cookie sends the visitor back to the index.
HandleLoginPageByPresence(r) ==
    IF r.cookie # None THEN Redirect("/", None)
    ELSE IF r.flash # None
    THEN setFlashCookie(Redirect("/login", None), r.flash)
    ELSE takeFlashCookie(r, Page("login"))

HandleLoginPage(r) ==
    IF HasValidSession(r) THEN Redirect("/", None)
    ELSE IF r.flash # None
    THEN setFlashCookie(Redirect("/login", None), r.flash)
    ELSE takeFlashCookie(r, Page("login"))

HandleLogin(r) ==
    IF tokenMatches(r.token)
    THEN SetSessionCookie(Redirect("/", None))
    ELSE Redirect("/login", [key |-> "invalid_login", id |-> r.id])

HandleLogout(r) ==
    Logout(Redirect("/login", [key |-> "logged_out", id |-> r.id]))

\* Mutant: the form's answer is the page itself.
PageAfterForm(r, key) ==
    [Page("index") EXCEPT !.csrf = secret, !.changed = key = "success",
                          !.toast = [key |-> key, id |-> r.id]]

\* Post, redirect, get: the outcome travels in the ?flash= of a 303.
redirectAfterForm(r, key) ==
    [Redirect("/", [key |-> key, id |-> r.id]) EXCEPT !.changed = key = "success"]

PagesMux(r) ==
    CASE r.path = "/sites"  -> {redirectAfterForm(r, k) : k \in {"success", "error"}}
      [] r.path = "/logout" -> {HandleLogout(r)}
      [] OTHER              -> {HandleIndex(r)}

\* Mutant: the value of the hidden field is not compared.
PassesAnyCSRF(r) ==
    \/ r.method = "GET"
    \/ tokenMatches(r.bearer)
    \/ r.csrf # None

\* Safe methods and bearer requests are exempt, the others carry the value of
\* the token in force.
PassesCSRF(r) ==
    \/ r.method = "GET"
    \/ tokenMatches(r.bearer)
    \/ secret # None /\ r.csrf # None /\ r.csrf = secret

CSRF(r) == IF PassesCSRF(r) THEN PagesMux(r) ELSE {Page("forbidden")}

Session(r) == IF HasValidSession(r) THEN CSRF(r) ELSE {Redirect("/login", None)}

\* The limiters may refuse any POST to the login and any API request (modules
\* ClientLimiter and LoginLimit say when).
LoginMux(r) ==
    IF r.method = "POST" THEN {HandleLogin(r), Page("limited")}
    ELSE {HandleLoginPage(r)}

API(r) ==
    IF tokenMatches(r.bearer)
    THEN {[Page("index") EXCEPT !.changed = c] : c \in BOOLEAN} \cup {Page("limited")}
    ELSE {Page("unauthorized"), Page("limited")}

Handler(r) ==
    CASE r.path = "/login" -> LoginMux(r)
      [] r.path = "/api"   -> API(r)
      [] OTHER             -> Session(r)

\* A change made for r, in the ledger.
Note(r, reply) ==
    /\ changes' = IF reply.changed
                  THEN changes \cup {[under |-> secret, bearer |-> r.bearer,
                                      form |-> r.csrf]}
                  ELSE changes
    /\ times' = IF reply.changed /\ r.id # 0
                THEN [times EXCEPT ![r.id] = @ + 1] ELSE times

-----------------------------------------------------------------------------
(* The browser and its user.                                               *)

Post(path, csrf, token) ==
    [Get(path, None) EXCEPT !.method = "POST", !.csrf = csrf, !.token = token,
                            !.id = acts + 1]

\* The user starts a request in a tab that is not waiting for one; the page is
\* not used any more.
Send(t, r) ==
    /\ acts < MaxActs
    /\ pending[t] = None
    /\ acts' = acts + 1
    /\ pending' = [pending EXCEPT ![t] =
                     [r EXCEPT !.cookie = cookie, !.notice = notice]]
    /\ view' = [view EXCEPT ![t] = Blank]
    /\ UNCHANGED <<secret, cookie, notice, answer, shown, troubles, changes,
                   times, resent>>

Visit(t) ==
    /\ Send(t, Get("/", None))
    /\ UNCHANGED typed

\* A reload repeats the request behind the page, body included.
Reload(t) ==
    /\ view[t].req # None
    /\ Send(t, view[t].req)
    /\ UNCHANGED typed

LogIn(t) ==
    /\ view[t].page = "login"
    /\ \E tok \in Token :
         /\ Send(t, Post("/login", None, tok))
         /\ typed' = typed \cup {tok}

SubmitForm(t) ==
    /\ view[t].page = "index"
    /\ \E path \in {"/sites", "/logout"} :
         Send(t, Post(path, view[t].csrf, None))
    /\ UNCHANGED typed

\* What a reload repeats: the request with the cookies of that moment.
Bare(r) == [r EXCEPT !.cookie = None, !.notice = None]

\* The process answers a request.
Serve(t) ==
    /\ pending[t] # None
    /\ answer[t] = None
    /\ \E reply \in Handler(pending[t]) :
         /\ answer' = [answer EXCEPT ![t] = reply]
         /\ Note(pending[t], reply)
    /\ pending' = [pending EXCEPT ![t] = Bare(@)]
    /\ UNCHANGED <<secret, cookie, notice, view, shown, bounds, typed, resent>>

\* A cookie changes only when the answer sets it.
Kept(set, old) == IF set = Same THEN old ELSE set

\* The answer arrives: its cookies are stored, then the page is displayed or the
\* redirect followed with the cookies as they are now.
Receive(t) ==
    /\ answer[t] # None
    /\ LET a == answer[t] IN
       /\ cookie' = Kept(a.session, cookie)
       /\ notice' = Kept(a.notice, notice)
       /\ \/ /\ a.to # None
             /\ pending' = [pending EXCEPT ![t] =
                  [Get(a.to, a.flash) EXCEPT !.cookie = cookie', !.notice = notice']]
             /\ UNCHANGED <<view, shown>>
          \/ /\ a.to = None
             /\ pending' = [pending EXCEPT ![t] = None]
             /\ view' = [view EXCEPT ![t] =
                  [page |-> a.page, csrf |-> a.csrf, req |-> pending[t]]]
             /\ shown' = IF a.toast = None THEN shown
                         ELSE [shown EXCEPT ![t][a.toast.id] = @ + 1]
    /\ answer' = [answer EXCEPT ![t] = None]
    /\ UNCHANGED <<secret, bounds, ledger>>

Trouble == troubles < MaxTroubles /\ troubles' = troubles + 1

\* The connection breaks, before or after the request was served: WriteTimeout,
\* a restart, the network.  The tab shows an error page that can be reloaded.
Lose(t) ==
    /\ Trouble
    /\ pending[t] # None
    /\ pending' = [pending EXCEPT ![t] = None]
    /\ answer' = [answer EXCEPT ![t] = None]
    /\ view' = [view EXCEPT ![t] =
                  [page |-> "lost", csrf |-> None, req |-> Bare(pending[t])]]
    /\ resent' = resent \cup ({pending[t].id} \ {0})
    /\ UNCHANGED <<secret, cookie, notice, shown, acts, typed, changes, times>>

\* A script with a Bearer token, on the API or on a form.
Script ==
    /\ acts < MaxActs
    /\ acts' = acts + 1
    /\ \E path \in {"/api", "/sites"}, b \in MaybeToken :
         LET r == [Post(path, None, None) EXCEPT !.bearer = b, !.id = 0]
         IN \E reply \in Handler(r) : Note(r, reply)
    /\ UNCHANGED <<secret, browser, troubles, typed, resent>>

\* The token is read when the process starts: a rotation is a restart.
Restart ==
    /\ Trouble
    /\ secret' \in MaybeToken \ {secret}
    /\ UNCHANGED <<browser, acts, ledger>>

\* The 12 h of the session cookie, the 60 s of the flash.
Expire ==
    /\ Trouble
    /\ \/ cookie # None /\ cookie' = None /\ UNCHANGED notice
       \/ notice # None /\ notice' = None /\ UNCHANGED cookie
    /\ UNCHANGED <<secret, pending, answer, view, shown, acts, ledger>>

-----------------------------------------------------------------------------
Next ==
    \/ \E t \in Tab : \/ Visit(t) \/ Reload(t) \/ LogIn(t) \/ SubmitForm(t)
                      \/ Serve(t) \/ Receive(t) \/ Lose(t)
    \/ Script \/ Restart \/ Expire

\* The server answers and the browser follows; nothing is assumed of the user.
Fairness == \A t \in Tab : WF_vars(Serve(t)) /\ WF_vars(Receive(t))

Spec == Init /\ [][Next]_vars /\ Fairness
-----------------------------------------------------------------------------
(* Properties.                                                             *)

\* Every variable has its type, and only a request that is waited for can have
\* an answer under way.
TypeOK ==
    /\ secret \in MaybeToken /\ cookie \in MaybeToken /\ notice \in MaybeFlash
    /\ pending \in [Tab -> Request \cup {None}]
    /\ answer \in [Tab -> Reply \cup {None}]
    /\ view \in [Tab -> View]
    /\ acts \in 0..MaxActs /\ troubles \in 0..MaxTroubles
    /\ typed \subseteq Token
    /\ changes \subseteq [under : MaybeToken, bearer : MaybeToken, form : MaybeToken]
    /\ times \in [Acts -> Nat]
    /\ resent \subseteq Acts
    /\ shown \in [Tab -> [Acts -> Nat]]
    /\ \A t \in Tab : answer[t] # None => pending[t] # None

\* Every change was made under a token that was in force, by a script that held
\* it or from a form rendered under it in a browser that had logged in with it:
\* a page or a cookie from before a rotation, and a process without a token,
\* change nothing.
ChangesAreAuthorised ==
    \A c \in changes :
      /\ c.under \in Token
      /\ c.bearer = c.under \/ (c.form = c.under /\ c.under \in typed)

\* "A 303 never re-sends the POST on refresh": the form of one act changes the
\* configuration once, however often pages are reloaded, unless its answer was
\* lost and the user sent it again.
RefreshNeverResends == \A a \in Acts : times[a] > 1 => a \in resent

\* A tab shows the outcome of an act at most once: ui_flash is consumed by the
\* render, whatever the other tabs do and whichever answers are lost.
OutcomeShownOncePerTab == \A t \in Tab, a \in Acts : shown[t][a] <= 1

\* Every request ends in a page, so the redirects between the index, the login
\* page and their flash hops never form a loop, also after a rotation.
NavigationEnds == \A t \in Tab : pending[t] # None ~> pending[t] = None
=============================================================================
