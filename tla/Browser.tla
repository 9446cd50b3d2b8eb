------------------------------ MODULE Browser ------------------------------
(***************************************************************************)
(* The browser client between its pages: who is let in (App, Landing), how *)
(* a user who is not comes back after signing in, how /connect and /files  *)
(* send the user to each other, and the form of /connect.  Each page       *)
(* decides from the cached answer to /sftp/status, which is asked again    *)
(* whenever a page is mounted; the answer may be older than what the user  *)
(* did since.                                                              *)
(*                                                                         *)
(* A request of the browser is served by the server at one moment and      *)
(* answered at a later one; requests overtake each other.  One tab is      *)
(* modelled; of the others, what they do to the server and to the cookies. *)
(* This is the program without --skip-login.                               *)
(***************************************************************************)
EXTENDS SignIn

CONSTANTS
    Here,        \* the tab
    Targets,     \* host, port and user name in the form of /connect
    NoTarget,    \* an empty form
    MaxClicks    \* bound: what the user and other tabs do

Guarded == {"connect", "files"}

ASSUME BrowserAssumption ==
    /\ Here \in Tabs
    /\ Places = Guarded
    /\ NoTarget \notin Targets
    /\ MaxClicks \in Nat

VARIABLES
    session,   \* on the server: the cookie's session is there
    linked,    \* on the server: and it has an SFTP connection
    page,      \* the route: landing, connect, files; or the tab is at the provider
    returnTo,  \* landing's ?return=
    me,        \* the query cache: the answer to /auth/me
    status,    \* the query cache: the answer to /sftp/status
    click,     \* what became of the request behind each button
    form,      \* the fields of /connect
    recent,    \* localStorage: the target to start with
    dial,      \* the connect request: its target, and what will be remembered
    reached,   \* history: the targets connected to
    edited,    \* history: the form was edited during a connect
    since,     \* history: linked since this page was last told of its disconnect
    clicks     \* how much was done, up to MaxClicks

serverVars == <<session, linked>>
formVars == <<form, recent, dial, reached, edited>>
vars == <<serverVars, signInVars, page, returnTo, me, status, click, formVars, since, clicks>>

Buttons == {"connect", "disconnect", "logout"}

\* A query: what it was last answered, whether the last fetch succeeded, and
\* the fetch under way, which is "asked" until the server has an answer.
Query == [data : {"none", "yes", "no"}, ok : BOOLEAN,
          fetch : {"idle", "asked", "yes", "no", "failed"}]
NoQuery == [data |-> "none", ok |-> FALSE, fetch |-> "idle"]

\* A connect: its target, and, as long as the form it came from is there, what
\* that holds by now.
Dial == [target : Targets, typed : Targets, mine : BOOLEAN]
NoDial == [target |-> NoTarget, typed |-> NoTarget, mine |-> FALSE]

\* The types; and the server has a connection only for a session it has.
BrowserTypeOK ==
    /\ session \in BOOLEAN /\ linked \in BOOLEAN /\ since \in BOOLEAN
    /\ SignInTypeOK
    /\ page \in {"landing", "connect", "files", "abroad"}
    /\ returnTo \in Places
    /\ form \in Targets \cup {NoTarget} /\ recent \in Targets \cup {NoTarget}
    /\ dial \in Dial \cup {NoDial}
    /\ reached \subseteq Targets /\ edited \in BOOLEAN
    /\ me \in Query /\ status \in Query
    /\ click \in [Buttons -> {"idle", "asked", "ok", "failed"}]
    /\ clicks \in 0..MaxClicks
    /\ linked => session
    /\ (page = "abroad") = (trip[Here].at # "home")

YesNo(b) == IF b THEN "yes" ELSE "no"
Pending(q) == q.data = "none" /\ q.fetch # "idle"

\* useQuery when its component mounts: nothing is ever fresh enough, but a
\* fetch that is under way is shared.
Mount(q) == IF q.fetch = "idle" THEN [q EXCEPT !.fetch = "asked"] ELSE q

\* A fetch that failed leaves the data of the last that did not.
Delivered(q) ==
    IF q.fetch = "failed" THEN [q EXCEPT !.ok = FALSE, !.fetch = "idle"]
    ELSE [data |-> q.fetch, ok |-> TRUE, fetch |-> "idle"]

\* RequireAuth shows the page behind it.
LetIn == me.data = "yes"
Shown(p) == page = p /\ LetIn

\* A page mounts with the status asked for and, /connect, with the form of last
\* time; the form there was is gone.
Enter(p) ==
    /\ page' = p
    /\ form' = IF p = "connect" THEN recent ELSE NoTarget
    /\ dial' = [dial EXCEPT !.mine = FALSE]
    /\ UNCHANGED <<recent, reached, edited>>

Stay == UNCHANGED <<page, status, formVars>>

\* navigate: the page there mounts, unless it is mounted already.
Go(p) ==
    IF page = p THEN Stay
    ELSE Enter(p) /\ status' = IF p \in Guarded THEN Mount(status) ELSE status

\* A page is loaded: all the state of the client starts anew, and the requests
\* of the one before are gone.
Load(p) ==
    /\ page' = p
    /\ me' = [NoQuery EXCEPT !.fetch = IF p = "abroad" THEN "idle" ELSE "asked"]
    /\ status' = NoQuery
    /\ click' = [b \in Buttons |-> "idle"]
    /\ form' = NoTarget
    /\ dial' = NoDial
    /\ UNCHANGED <<recent, reached, edited>>

BrowserInit ==
    /\ session \in BOOLEAN
    /\ linked \in BOOLEAN
    /\ linked => session
    /\ SignInInit
    /\ page \in {"landing", "connect", "files"}
    /\ returnTo = "connect"
    /\ me = [NoQuery EXCEPT !.fetch = "asked"]
    /\ status = NoQuery
    /\ click = [b \in Buttons |-> "idle"]
    /\ form = NoTarget /\ recent = NoTarget
    /\ dial = NoDial
    /\ reached = {} /\ edited = FALSE
    /\ since = linked
    /\ clicks = 0

Count == clicks < MaxClicks /\ clicks' = clicks + 1

-----------------------------------------------------------------------------
(***************************************************************************)
(* The queries.                                                            *)
(***************************************************************************)
\* The server answers, or the request is lost.  /sftp/status needs a session.
MeServed ==
    /\ me.fetch = "asked"
    /\ me' \in {[me EXCEPT !.fetch = a] : a \in {YesNo(session), "failed"}}
    /\ UNCHANGED <<serverVars, signInVars, page, returnTo, status, click, formVars, since, clicks>>

StatusServed ==
    /\ status.fetch = "asked"
    /\ status' \in {[status EXCEPT !.fetch = a] :
                      a \in {"failed"} \cup (IF session THEN {YesNo(linked)} ELSE {})}
    /\ UNCHANGED <<serverVars, signInVars, page, returnTo, me, click, formVars, since, clicks>>

\* The first answer of me decides whether the page behind RequireAuth mounts.
MeDelivered ==
    /\ me.fetch \in {"yes", "no", "failed"}
    /\ me' = Delivered(me)
    /\ IF page \in Guarded /\ me.fetch = "yes"
       THEN Enter(page) /\ status' = Mount(status)
       ELSE Stay
    /\ UNCHANGED <<serverVars, signInVars, returnTo, click, since, clicks>>

StatusDelivered ==
    /\ status.fetch \in {"yes", "no", "failed"}
    /\ status' = Delivered(status)
    /\ UNCHANGED <<serverVars, signInVars, page, returnTo, me, click, formVars, since, clicks>>

(***************************************************************************)
(* The redirects, each an effect that runs after a render.                 *)
(***************************************************************************)
\* RequireAuth, with the page as ?return=.
TurnAway ==
    /\ page \in Guarded
    /\ ~Pending(me) /\ ~LetIn
    /\ Go("landing")
    /\ returnTo' = page
    /\ UNCHANGED <<serverVars, signInVars, me, click, since, clicks>>

\* Landing goes on to the page the user came for.
Welcome ==
    /\ Shown("landing")
    /\ Go(returnTo)
    /\ UNCHANGED <<serverVars, signInVars, returnTo, me, click, since, clicks>>

\* Mutant: whatever the answer.
ToFilesAlways ==
    /\ Shown("connect")
    /\ status.data # "none"
    /\ Go("files")
    /\ UNCHANGED <<serverVars, signInVars, returnTo, me, click, since, clicks>>

\* Connect.
ToFiles ==
    /\ Shown("connect")
    /\ status.data = "yes"
    /\ Go("files")
    /\ UNCHANGED <<serverVars, signInVars, returnTo, me, click, since, clicks>>

\* Files: the last fetch succeeded and said no.
ToConnect ==
    /\ Shown("files")
    /\ status.ok /\ status.data = "no"
    /\ Go("connect")
    /\ UNCHANGED <<serverVars, signInVars, returnTo, me, click, since, clicks>>

(***************************************************************************)
(* The form of /connect.                                                   *)
(***************************************************************************)
\* The fields stay open to the user while a connect is under way.
Edit(t) ==
    /\ Count
    /\ Shown("connect") /\ form # t
    /\ form' = t
    /\ dial' = IF dial.mine THEN [dial EXCEPT !.typed = t] ELSE dial
    /\ edited' = (edited \/ dial.mine)
    /\ UNCHANGED <<serverVars, signInVars, page, returnTo, me, status, click, recent, reached,
                   since>>

\* Mutant: the target is remembered when the form is sent.
ConnectRemembering ==
    /\ Count
    /\ Shown("connect") /\ form # NoTarget
    /\ click.connect = "idle"
    /\ click' = [click EXCEPT !.connect = "asked"]
    /\ dial' = [target |-> form, typed |-> form, mine |-> TRUE]
    /\ recent' = form
    /\ UNCHANGED <<serverVars, signInVars, page, returnTo, me, status, form, reached, edited,
                   since>>

\* Submit, with the fields that are required.  (Bound: one connect at a time.)
ConnectClick ==
    /\ Count
    /\ Shown("connect") /\ form # NoTarget
    /\ click.connect = "idle"
    /\ click' = [click EXCEPT !.connect = "asked"]
    /\ dial' = [target |-> form, typed |-> form, mine |-> TRUE]
    /\ UNCHANGED <<serverVars, signInVars, page, returnTo, me, status, form, recent, reached,
                   edited, since>>

\* The server connects and says so, connects and the answer is lost, or does not.
ConnectServed ==
    /\ click.connect = "asked"
    /\ \/ /\ session
          /\ linked' = TRUE /\ since' = TRUE
          /\ reached' = reached \cup {dial.target}
          /\ click' \in {[click EXCEPT !.connect = a] : a \in {"ok", "failed"}}
       \/ /\ click' = [click EXCEPT !.connect = "failed"]
          /\ UNCHANGED <<linked, since, reached>>
    /\ UNCHANGED <<session, signInVars, page, returnTo, me, status, form, recent, dial, edited,
                   clicks>>

\* onSuccess remembers what the form holds by now and goes to the files.
ConnectAnswered ==
    /\ click.connect \in {"ok", "failed"}
    /\ click' = [click EXCEPT !.connect = "idle"]
    /\ dial' = NoDial
    /\ IF click.connect = "ok"
       THEN /\ recent' = dial.typed
            /\ page' = "files"
            /\ form' = NoTarget
            /\ status' = IF page = "files" THEN status ELSE Mount(status)
       ELSE UNCHANGED <<page, status, form, recent>>
    /\ UNCHANGED <<serverVars, signInVars, returnTo, me, reached, edited, since, clicks>>

(***************************************************************************)
(* The buttons.  Bound: one request of each kind at a time.                *)
(***************************************************************************)
Click(b, p) ==
    /\ Count
    /\ Shown(p)
    /\ click[b] = "idle"
    /\ click' = [click EXCEPT ![b] = "asked"]
    /\ UNCHANGED <<serverVars, signInVars, page, returnTo, me, status, formVars, since>>

DisconnectClick == Click("disconnect", "files")
LogoutClick == \E p \in Guarded : Click("logout", p)

DisconnectServed ==
    /\ click.disconnect = "asked"
    /\ \/ /\ session
          /\ linked' = FALSE
          /\ click' \in {[click EXCEPT !.disconnect = a] : a \in {"ok", "failed"}}
       \/ /\ click' = [click EXCEPT !.disconnect = "failed"]
          /\ UNCHANGED linked
    /\ UNCHANGED <<session, signInVars, page, returnTo, me, status, formVars, since, clicks>>

\* Mutant: the query cache is left as it is.
DisconnectKeeping ==
    /\ click.disconnect \in {"ok", "failed"}
    /\ click' = [click EXCEPT !.disconnect = "idle"]
    /\ IF click.disconnect = "ok"
       THEN Go("connect") /\ since' = linked
       ELSE Stay /\ UNCHANGED since
    /\ UNCHANGED <<serverVars, signInVars, returnTo, me, clicks>>

\* clear() drops the cached status with its fetch; the session's provider is
\* not rendered again and keeps what it has.  An error goes nowhere.
DisconnectAnswered ==
    /\ click.disconnect \in {"ok", "failed"}
    /\ click' = [click EXCEPT !.disconnect = "idle"]
    /\ IF click.disconnect = "ok"
       THEN /\ IF page = "connect" THEN UNCHANGED <<page, formVars>> ELSE Enter("connect")
            /\ status' = Mount(NoQuery)
            /\ since' = linked
       ELSE Stay /\ UNCHANGED since
    /\ UNCHANGED <<serverVars, signInVars, returnTo, me, clicks>>

\* Mutant: the connection stays.
LogoutLeaving ==
    /\ click.logout = "asked"
    /\ session' = FALSE
    /\ click' = [click EXCEPT !.logout = "ok"]
    /\ UNCHANGED <<linked, signInVars, page, returnTo, me, status, formVars, since, clicks>>

\* handleLogout ends the session and its connection; it needs neither.
LogoutServed ==
    /\ click.logout = "asked"
    /\ \/ /\ session' = FALSE /\ linked' = FALSE
          /\ click' \in {[click EXCEPT !.logout = a] : a \in {"ok", "failed"}}
       \/ /\ click' = [click EXCEPT !.logout = "failed"]
          /\ UNCHANGED serverVars
    /\ UNCHANGED <<signInVars, page, returnTo, me, status, formVars, since, clicks>>

LogoutAnswered ==
    /\ click.logout \in {"ok", "failed"}
    /\ IF click.logout = "ok"
       THEN Load("landing") /\ returnTo' = "connect"
       ELSE /\ click' = [click EXCEPT !.logout = "idle"]
            /\ Stay /\ UNCHANGED <<me, returnTo>>
    /\ UNCHANGED <<serverVars, signInVars, since, clicks>>

Reload ==
    /\ Count
    /\ page # "abroad"
    /\ Load(page)
    /\ UNCHANGED <<serverVars, signInVars, returnTo, since>>

(***************************************************************************)
(* Signing in, here and in other tabs.                                     *)
(***************************************************************************)
\* Landing's button.
SignInClick ==
    /\ Count
    /\ page = "landing" /\ ~Pending(me) /\ ~LetIn
    /\ LoginStart(Here, returnTo, clicks')
    /\ Load("abroad")
    /\ UNCHANGED <<serverVars, returnTo, since>>

\* Sign-in succeeded: the cookie is that of a new session.
NewSession == session' = TRUE /\ linked' = FALSE

Arrive ==
    /\ CallbackAnswered(Here)
    /\ IF trip[Here].answer = "in"
       THEN NewSession /\ Load(trip[Here].sent.ret)
       ELSE UNCHANGED <<serverVars, page, me, status, click, formVars>>
    /\ UNCHANGED <<returnTo, since, clicks>>

\* Back to the landing page, or another try at a page with an error.
GoHome ==
    /\ Count
    /\ Abandon(Here)
    /\ Load("landing")
    /\ UNCHANGED <<serverVars, returnTo, since>>

TryAgain ==
    /\ Count
    /\ CallbackAgain(Here)
    /\ UNCHANGED <<serverVars, page, returnTo, me, status, click, formVars, since>>

SignInElsewhere ==
    /\ Count
    /\ \E t \in Tabs \ {Here}, p \in Places : LoginStart(t, p, clicks')
    /\ UNCHANGED <<serverVars, page, returnTo, me, status, click, formVars, since>>

\* The cookie is replaced under this tab.  What it asked before is about a session
\* that is not the cookie's any more, and is served as if it was before.
ArriveElsewhere(t) ==
    /\ CallbackAnswered(t)
    /\ IF trip[t].answer = "in"
       THEN /\ NewSession
            /\ "asked" \notin {me.fetch, status.fetch, click.connect, click.disconnect, click.logout}
       ELSE UNCHANGED serverVars
    /\ UNCHANGED <<page, returnTo, me, status, click, formVars, since, clicks>>

\* The user at the provider, the server, and the cookie's ten minutes.
SignInStep ==
    /\ \/ \E t \in Tabs : ProviderReturn(t) \/ CallbackServed(t)
       \/ CookieExpires
    /\ UNCHANGED <<serverVars, page, returnTo, me, status, click, formVars, since, clicks>>

\* Another tab connects, and remembers its target, or disconnects, the connection
\* is idle too long, or the session is.
Elsewhere ==
    /\ Count
    /\ session
    /\ \/ /\ linked' = TRUE
          /\ \E t \in Targets : recent' = t /\ reached' = reached \cup {t}
          /\ UNCHANGED session
       \/ /\ linked /\ linked' = FALSE
          /\ UNCHANGED <<session, recent, reached>>
       \/ /\ session' = FALSE /\ linked' = FALSE
          /\ UNCHANGED <<recent, reached>>
    /\ since' = (since \/ linked')
    /\ UNCHANGED <<signInVars, page, returnTo, me, status, click, form, dial, edited>>

-----------------------------------------------------------------------------
Served == MeServed \/ StatusServed \/ ConnectServed \/ DisconnectServed \/ LogoutServed
Answered ==
    \/ MeDelivered \/ StatusDelivered
    \/ ConnectAnswered \/ DisconnectAnswered \/ LogoutAnswered
Redirect == TurnAway \/ Welcome \/ ToFiles \/ ToConnect
User ==
    \/ (\E t \in Targets : Edit(t)) \/ ConnectClick \/ DisconnectClick \/ LogoutClick
    \/ Reload \/ SignInClick \/ GoHome \/ TryAgain
SigningIn ==
    \/ SignInStep \/ Arrive \/ SignInElsewhere
    \/ \E t \in Tabs \ {Here} : ArriveElsewhere(t)

BrowserNext == Served \/ Answered \/ Redirect \/ User \/ SigningIn \/ Elsewhere

BrowserSpec == BrowserInit /\ [][BrowserNext]_vars

\* The server and the network end every request, with an answer or an error;
\* React runs its effects.  Users need not do anything.
Fairness ==
    /\ WF_vars(MeServed) /\ WF_vars(StatusServed)
    /\ WF_vars(ConnectServed) /\ WF_vars(DisconnectServed) /\ WF_vars(LogoutServed)
    /\ WF_vars(MeDelivered) /\ WF_vars(StatusDelivered)
    /\ WF_vars(ConnectAnswered) /\ WF_vars(DisconnectAnswered) /\ WF_vars(LogoutAnswered)
    /\ WF_vars(Redirect)

FairBrowserSpec == BrowserSpec /\ Fairness

-----------------------------------------------------------------------------
\* The pages do not send the user back and forth for ever: once nothing is done
\* any more, one of them stays.
BouncesEnd == <>[][page' = page]_vars

\* After a disconnect the connect page stays until there is a connection again:
\* no cached or late answer from before brings the files back.
NoReturn ==
    [][page = "connect" /\ page' = "files" /\ click' = click => since]_vars

\* Signing in brings a tab to the page it was sent away from, whatever other tabs
\* have done to the cookie meanwhile.
LandsWhereAsked ==
    [][page = "abroad" /\ page' \in Guarded => page' = returnTo]_vars

\* The target /connect starts with is one that a connect has reached, unless the
\* form was edited while a connect was under way.
Remembered == recent \in reached \cup {NoTarget} \/ edited
=============================================================================
