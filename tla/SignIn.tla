------------------------------- MODULE SignIn -------------------------------
(***************************************************************************)
(* Signing in with OpenID Connect, as the tabs of one browser go through   *)
(* it: /auth/login sends the tab to the provider and leaves the login's    *)
(* state in a cookie, of which the browser has one for all its tabs; the   *)
(* provider sends the tab on to /auth/callback, which compares the two.    *)
(* The server itself remembers nothing of a login.                         *)
(***************************************************************************)
EXTENDS Naturals

CONSTANTS
    Tabs,      \* tabs of the browser
    Places,    \* pages to come back to
    NoState    \* no state cookie

ASSUME SignInAssumption == NoState \notin [id : Nat, ret : Places]

VARIABLES
    jar,       \* the state cookie
    trip,      \* where each tab is on its way
    spent      \* on the provider: the logins whose code was exchanged

signInVars == <<jar, trip, spent>>

\* The state of a login and, as the verifier, what the provider knows it by.
Cookies == [id : Nat, ret : Places]

\* What the callback finds: a login; no cookie; one that is expired or another
\* login's; a code that was exchanged before; or a provider that refuses the user
\* or the code, or whose token does not verify.
Verdicts == {"in", "missing", "mismatch", "spent", "refused"}

\* A tab: the login it is on, whether the provider refused the user, the cookie
\* it sent and what it is answered.  And, as a history, whether nothing else has
\* touched the cookie since.
Trips == [at : {"home", "abroad", "asked", "answered", "failed"},
          id : Nat, denied : BOOLEAN, sent : Cookies \cup {NoState},
          answer : Verdicts \cup {"none", "lost"}, alone : BOOLEAN]

NoTrip == [at |-> "home", id |-> 0, denied |-> FALSE, sent |-> NoState,
           answer |-> "none", alone |-> FALSE]

SignInTypeOK ==
    /\ jar \in Cookies \cup {NoState}
    /\ trip \in [Tabs -> Trips]
    /\ spent \subseteq Nat

SignInInit ==
    /\ jar = NoState
    /\ trip = [t \in Tabs |-> NoTrip]
    /\ spent = {}

\* The trips once somebody other than t has touched the cookie.
Crossed(t) == [u \in Tabs |-> IF u = t THEN trip[u] ELSE [trip[u] EXCEPT !.alone = FALSE]]

-----------------------------------------------------------------------------
\* Mutant: a cookie that is still there is used again, with the new page.
LoginReusing(t, p, n) ==
    LET id == IF jar = NoState THEN n ELSE jar.id
    IN  /\ trip[t].at = "home"
        /\ jar' = [id |-> id, ret |-> p]
        /\ trip' = [Crossed(t) EXCEPT ![t] =
             [NoTrip EXCEPT !.at = "abroad", !.id = id, !.alone = TRUE]]
        /\ UNCHANGED spent

\* Mutant: a cookie that is still there stays.
LoginKeeping(t, p, n) ==
    /\ trip[t].at = "home"
    /\ jar' = IF jar = NoState THEN [id |-> n, ret |-> p] ELSE jar
    /\ trip' = [Crossed(t) EXCEPT ![t] =
         [NoTrip EXCEPT !.at = "abroad", !.id = n, !.alone = TRUE]]
    /\ UNCHANGED spent

\* /auth/login?return=p, with n as the random state.
LoginStart(t, p, n) ==
    /\ trip[t].at = "home"
    /\ jar' = [id |-> n, ret |-> p]
    /\ trip' = [Crossed(t) EXCEPT ![t] =
         [NoTrip EXCEPT !.at = "abroad", !.id = n, !.alone = TRUE]]
    /\ UNCHANGED spent

\* The provider is done with the user, and the browser sends the callback with
\* the cookie of the moment.
ProviderReturn(t) ==
    /\ trip[t].at = "abroad"
    /\ \E d \in BOOLEAN :
         trip' = [trip EXCEPT ![t].at = "asked", ![t].sent = jar, ![t].denied = d]
    /\ UNCHANGED <<jar, spent>>

\* A page with an error is loaded again: the same callback, the cookie of now.
CallbackAgain(t) ==
    /\ trip[t].at = "failed"
    /\ trip' = [trip EXCEPT ![t].at = "asked", ![t].sent = jar]
    /\ UNCHANGED <<jar, spent>>

\* The callback is for the login of the cookie.
Matches(r) == r.sent # NoState /\ r.sent.id = r.id

\* The provider sent a code, which is now exchanged.
Exchanges(r) == Matches(r) /\ ~r.denied

\* The provider gives a token for a code once, if it does: the exchange may fail,
\* the token have no id_token, or one that does not verify or has no claims.
Finds(r, v) ==
    \/ v = "missing" /\ r.sent = NoState
    \/ v = "mismatch" /\ r.sent # NoState /\ ~Matches(r)
    \/ v = "refused" /\ Matches(r)
    \/ v = "spent" /\ Exchanges(r) /\ r.id \in spent
    \/ v = "in" /\ Exchanges(r) /\ r.id \notin spent

\* The request may be lost, and so may the answer, with the cookies it sets.  A
\* failure may leave the code spent or not.
CallbackServed(t) ==
    LET r == trip[t]
    IN  /\ r.at = "asked"
        /\ \/ \E v \in Verdicts :
                /\ Finds(r, v)
                /\ \E a \in {v, "lost"} :
                     trip' = [trip EXCEPT ![t].at = "answered", ![t].answer = a]
                /\ spent' \in {spent, spent \cup {r.id}}
                /\ v = "in" => r.id \in spent'
                /\ ~Exchanges(r) => spent' = spent
           \/ /\ trip' = [trip EXCEPT ![t].at = "answered", ![t].answer = "lost"]
              /\ UNCHANGED spent
        /\ UNCHANGED jar

\* An answer other than that there was no cookie clears it, whosever it is by now.
CallbackAnswered(t) ==
    LET r == trip[t]
        clears == r.answer \in Verdicts \ {"missing"}
    IN  /\ r.at = "answered"
        /\ jar' = IF clears THEN NoState ELSE jar
        /\ trip' = [(IF clears THEN Crossed(t) ELSE trip) EXCEPT ![t] =
             IF r.answer = "in" THEN NoTrip
             ELSE [r EXCEPT !.at = "failed", !.sent = NoState, !.answer = "none", !.alone = FALSE]]
        /\ UNCHANGED spent

\* The tab is used for something else.
Abandon(t) ==
    /\ trip[t].at \in {"abroad", "failed"}
    /\ trip' = [trip EXCEPT ![t] = NoTrip]
    /\ UNCHANGED <<jar, spent>>

\* stateTTL has passed, for the browser, and for the server when the cookie was
\* sent before.  (No login has the state 0.)
CookieExpires ==
    /\ jar # NoState
    /\ jar' = NoState
    /\ trip' = [t \in Tabs |->
         [trip[t] EXCEPT !.alone = FALSE,
                         !.sent = IF @ = jar THEN [jar EXCEPT !.id = 0] ELSE @]]
    /\ UNCHANGED spent

-----------------------------------------------------------------------------
\* A login that no other tab and no delay has crossed is turned away by the
\* provider only, never for its own state: its callback finds the cookie of this
\* login, and a code that was not exchanged before, also after logins that were
\* begun and given up (oidc.go:79-97).
TurnedAwayAbroad ==
    \A t \in Tabs :
      LET r == trip[t]
      IN  r.at = "answered" /\ r.alone => r.answer \in {"in", "refused", "lost"}
=============================================================================
