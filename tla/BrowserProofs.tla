--------------------------- MODULE BrowserProofs ---------------------------
(***************************************************************************)
(* What Browser keeps for any number of tabs, targets and clicks.          *)
(***************************************************************************)
EXTENDS Browser, TLAPS

\* The state cookies there can be: each login has the number of its click.
Issued == [id : 0..clicks, ret : Places] \cup {NoState}

\* A login that nothing has crossed has its cookie and its code.
Uncrossed(r) ==
    r.alone =>
      /\ r.at # "failed"
      /\ r.at = "abroad" => jar # NoState /\ jar.id = r.id /\ r.id \notin spent
      /\ r.at = "asked" => r.sent # NoState /\ r.sent.id = r.id /\ r.id \notin spent
      /\ r.at = "answered" => r.answer \in {"in", "refused", "lost"}

\* A tab's trip: it has a number, and an answer only when it is answered.
Sound(r) ==
    /\ r.at # "home" => r.id \in 1..clicks
    /\ r.sent \in Issued
    /\ r.answer # "none" => r.at = "answered"
    /\ r.answer = "in" => r.sent # NoState
    /\ Uncrossed(r)

\* No two tabs are on the same login.
SignInIInv ==
    /\ trip \in [Tabs -> Trips]
    /\ spent \subseteq 1..clicks
    /\ jar \in Issued
    /\ \A t \in Tabs : Sound(trip[t])
    /\ \A t, u \in Tabs :
         trip[t].at # "home" /\ trip[u].at # "home" /\ trip[t].id = trip[u].id => t = u

\* The trips as the use of the cookie by t leaves the others'.
LEMMA CrossedTrips ==
    ASSUME SignInIInv, NEW t \in Tabs
    PROVE  /\ Crossed(t) \in [Tabs -> Trips]
           /\ \A u \in Tabs : u # t =>
                /\ Crossed(t)[u].at = trip[u].at /\ Crossed(t)[u].id = trip[u].id
                /\ Crossed(t)[u].sent = trip[u].sent /\ Crossed(t)[u].answer = trip[u].answer
                /\ Crossed(t)[u].alone = FALSE
<1>1. ASSUME NEW u \in Tabs PROVE Crossed(t)[u] \in Trips
  <2>1. trip[u] \in Trips
    BY DEF SignInIInv
  <2>2. Crossed(t)[u] = IF u = t THEN trip[u] ELSE [trip[u] EXCEPT !.alone = FALSE]
    BY DEF Crossed
  <2> QED  BY <2>1, <2>2 DEF Trips
<1>2. ASSUME NEW u \in Tabs, u # t
      PROVE  /\ Crossed(t)[u].at = trip[u].at /\ Crossed(t)[u].id = trip[u].id
             /\ Crossed(t)[u].sent = trip[u].sent /\ Crossed(t)[u].answer = trip[u].answer
             /\ Crossed(t)[u].alone = FALSE
  <2>1. trip[u] \in Trips
    BY DEF SignInIInv
  <2>2. Crossed(t)[u] = [trip[u] EXCEPT !.alone = FALSE]
    BY <1>2 DEF Crossed
  <2> QED  BY <2>1, <2>2 DEF Trips
<1>3. Crossed(t) = [u \in Tabs |-> Crossed(t)[u]]
  BY DEF Crossed
<1> QED  BY <1>1, <1>2, <1>3

\* Clicks leave the logins as they are.
LEMMA SignInGrows ==
    ASSUME SignInIInv, clicks \in Nat, clicks' \in Nat, clicks <= clicks', UNCHANGED signInVars
    PROVE  SignInIInv'
<1>1. 0..clicks \subseteq 0..clicks' /\ 1..clicks \subseteq 1..clicks'
  OBVIOUS
<1>2. Issued \subseteq Issued'
  BY <1>1 DEF Issued
<1>3. \A t \in Tabs : Sound(trip[t])'
  BY <1>1, <1>2 DEF SignInIInv, Sound, Uncrossed, signInVars
<1>4. trip' = trip /\ spent' = spent /\ jar' = jar
  BY DEF signInVars
<1> QED  BY <1>1, <1>2, <1>3, <1>4 DEF SignInIInv

LEMMA LoginStartSound ==
    ASSUME SignInIInv, SignInAssumption, clicks \in Nat, clicks' = clicks + 1,
           NEW t \in Tabs, NEW p \in Places, LoginStart(t, p, clicks')
    PROVE  SignInIInv' /\ trip'[t].at = "abroad"
<1> DEFINE new == [NoTrip EXCEPT !.at = "abroad", !.id = clicks', !.alone = TRUE]
<1>1. /\ 0..clicks \subseteq 0..clicks' /\ 1..clicks \subseteq 1..clicks'
      /\ clicks' \in Nat /\ clicks' \in 1..clicks' /\ clicks' \in 0..clicks'
      /\ clicks' \notin 1..clicks
  OBVIOUS
<1>2. Issued \subseteq Issued'
  BY <1>1 DEF Issued
<1>3. new \in Trips /\ new.at = "abroad" /\ new.id = clicks' /\ new.sent = NoState
      /\ new.answer = "none"
  <2>1. NoTrip \in Trips /\ NoTrip.sent = NoState /\ NoTrip.answer = "none"
    BY DEF NoTrip, Trips
  <2> QED  BY <1>1, <2>1 DEF Trips
<1> HIDE DEF new
<1>4. /\ trip' \in [Tabs -> Trips] /\ trip'[t] = new
      /\ \A u \in Tabs \ {t} : trip'[u] = Crossed(t)[u]
      /\ jar' = [id |-> clicks', ret |-> p] /\ spent' = spent
  BY <1>3, CrossedTrips DEF LoginStart, new
<1>5. jar' \in Issued' /\ jar' # NoState /\ jar'.id = clicks'
  BY <1>1, <1>4 DEF Issued, SignInAssumption
<1>6. Sound(trip[t])'
  BY <1>1, <1>3, <1>4, <1>5 DEF Sound, Uncrossed, Issued, SignInIInv
<1>7. ASSUME NEW u \in Tabs \ {t}
      PROVE  /\ Sound(trip[u])'
             /\ trip'[u].at = trip[u].at /\ trip'[u].id = trip[u].id
             /\ trip[u].at # "home" => trip[u].id # clicks'
  <2>1. /\ trip'[u].at = trip[u].at /\ trip'[u].id = trip[u].id
        /\ trip'[u].sent = trip[u].sent /\ trip'[u].answer = trip[u].answer
        /\ trip'[u].alone = FALSE
    <3>1. u \in Tabs /\ u # t /\ trip'[u] = Crossed(t)[u]
      BY <1>4
    <3>2. /\ Crossed(t)[u].at = trip[u].at /\ Crossed(t)[u].id = trip[u].id
          /\ Crossed(t)[u].sent = trip[u].sent /\ Crossed(t)[u].answer = trip[u].answer
          /\ Crossed(t)[u].alone = FALSE
      BY <3>1, CrossedTrips
    <3> QED  BY <3>1, <3>2
  <2>2. Sound(trip[u])
    BY DEF SignInIInv
  <2> QED  BY <1>1, <1>2, <2>1, <2>2 DEF Sound, Uncrossed
<1>8. \A u \in Tabs \ {t} : trip'[u].at = trip[u].at /\ trip'[u].id = trip[u].id
                            /\ (trip[u].at # "home" => trip[u].id # clicks')
  BY <1>7
<1>9. \A u, v \in Tabs :
        trip'[u].at # "home" /\ trip'[v].at # "home" /\ trip'[u].id = trip'[v].id => u = v
  BY <1>3, <1>4, <1>8 DEF SignInIInv
<1> QED  BY <1>1, <1>3, <1>4, <1>5, <1>6, <1>7, <1>9 DEF SignInIInv

\* A step of tab t that leaves the cookie and the other tabs alone.
LEMMA OwnStep ==
    ASSUME SignInIInv, NEW t \in Tabs, NEW r \in Trips, trip' = [trip EXCEPT ![t] = r],
           r.at # "home" => trip[t].at # "home" /\ r.id = trip[t].id,
           spent' \subseteq 1..clicks, \A u \in Tabs \ {t} : Sound(trip[u])',
           Sound(trip[t])', UNCHANGED jar, clicks \in Nat, clicks' \in Nat, clicks <= clicks'
    PROVE  SignInIInv'
<1>1. /\ trip' \in [Tabs -> Trips] /\ trip'[t] = r
      /\ \A u \in Tabs \ {t} : trip'[u] = trip[u]
  BY DEF SignInIInv
<1>2. \A u \in Tabs : Sound(trip[u])'
  BY <1>1
<1>3. \A u, v \in Tabs :
        trip'[u].at # "home" /\ trip'[v].at # "home" /\ trip'[u].id = trip'[v].id => u = v
  BY <1>1 DEF SignInIInv
<1>9. 1..clicks \subseteq 1..clicks' /\ 0..clicks \subseteq 0..clicks'
  OBVIOUS
<1>10. Issued \subseteq Issued'
  BY <1>9 DEF Issued
<1> QED  BY <1>1, <1>2, <1>3, <1>9, <1>10 DEF SignInIInv

LEMMA SendSound ==
    ASSUME SignInIInv, SignInAssumption, clicks \in Nat, NEW t \in Tabs,
           ProviderReturn(t) \/ CallbackAgain(t), clicks' \in Nat, clicks <= clicks'
    PROVE  SignInIInv' /\ trip'[t].at # "home"
<1>0. /\ trip[t] \in Trips /\ Sound(trip[t]) /\ jar \in Issued
      /\ \A u \in Tabs \ {t} : Sound(trip[u])
  BY DEF SignInIInv
<1>1. PICK d \in BOOLEAN : trip' = [trip EXCEPT ![t] =
                             [trip[t] EXCEPT !.at = "asked", !.sent = jar, !.denied = d]]
  <2>1. CASE ProviderReturn(t)
    BY <2>1 DEF ProviderReturn
  <2>2. CASE CallbackAgain(t)
    <3>1. [trip[t] EXCEPT !.at = "asked", !.sent = jar]
            = [trip[t] EXCEPT !.at = "asked", !.sent = jar, !.denied = trip[t].denied]
      BY <1>0 DEF Trips
    <3>2. trip[t].denied \in BOOLEAN
      BY <1>0 DEF Trips
    <3> QED  BY <2>2, <3>1, <3>2 DEF CallbackAgain
  <2> QED  BY <2>1, <2>2
<1>2. /\ trip[t].at \in {"abroad", "failed"} /\ UNCHANGED <<jar, spent>>
  BY DEF ProviderReturn, CallbackAgain
<1> DEFINE r == [trip[t] EXCEPT !.at = "asked", !.sent = jar, !.denied = d]
<1>9. 1..clicks \subseteq 1..clicks' /\ 0..clicks \subseteq 0..clicks'
  OBVIOUS
<1>10. Issued \subseteq Issued'
  BY <1>9 DEF Issued
<1>3. jar \in Cookies \cup {NoState}
  BY <1>0 DEF Issued, Cookies
<1>4. r \in Trips /\ r.at = "asked" /\ r.sent = jar /\ r.id = trip[t].id
      /\ r.answer = trip[t].answer /\ r.alone = trip[t].alone /\ r.denied = d
  BY <1>0, <1>3 DEF Trips
<1>5. trip'[t] = r /\ \A u \in Tabs \ {t} : trip'[u] = trip[u]
  BY <1>1 DEF SignInIInv
<1>6. Sound(trip[t])'
  BY <1>0, <1>2, <1>4, <1>5, <1>9, <1>10 DEF Sound, Uncrossed
<1>7. \A u \in Tabs \ {t} : Sound(trip[u])'
  BY <1>0, <1>2, <1>5, <1>9, <1>10 DEF Sound, Uncrossed
<1>8. spent' \subseteq 1..clicks
  BY <1>2 DEF SignInIInv
<1> QED  BY <1>1, <1>2, <1>4, <1>5, <1>6, <1>7, <1>8, OwnStep

LEMMA ServedSound ==
    ASSUME SignInIInv, SignInAssumption, clicks \in Nat, NEW t \in Tabs,
           CallbackServed(t), UNCHANGED clicks
    PROVE  SignInIInv' /\ trip'[t].at # "home"
<1>0. /\ trip[t] \in Trips /\ Sound(trip[t]) /\ trip[t].at = "asked"
      /\ \A u \in Tabs \ {t} : Sound(trip[u]) /\ trip[u] \in Trips
      /\ UNCHANGED jar
  BY DEF SignInIInv, CallbackServed
<1>1. PICK a \in Verdicts \cup {"lost"} :
        /\ trip' = [trip EXCEPT ![t] = [trip[t] EXCEPT !.at = "answered", !.answer = a]]
        /\ a # "lost" => Finds(trip[t], a)
  BY DEF CallbackServed
<1>2. spent' = spent \/ spent' = spent \cup {trip[t].id}
  BY DEF CallbackServed
<1> DEFINE r == [trip[t] EXCEPT !.at = "answered", !.answer = a]
<1>3. a \in Verdicts \cup {"none", "lost"}
  OBVIOUS
<1>4. r \in Trips /\ r.at = "answered" /\ r.sent = trip[t].sent /\ r.id = trip[t].id
      /\ r.answer = a /\ r.alone = trip[t].alone /\ r.denied = trip[t].denied
  BY <1>0, <1>3 DEF Trips
<1>5. trip'[t] = r /\ \A u \in Tabs \ {t} : trip'[u] = trip[u]
  BY <1>1 DEF SignInIInv
<1>6. a = "in" => r.sent # NoState
  BY <1>1, <1>4 DEF Finds, Exchanges, Matches
<1>7. trip[t].alone => a \in {"in", "refused", "lost"}
  BY <1>0, <1>1 DEF Sound, Uncrossed, Finds, Exchanges, Matches, Verdicts
<1>8. Sound(trip[t])'
  BY <1>0, <1>4, <1>5, <1>6, <1>7 DEF Sound, Uncrossed, Issued
<1>9. \A u \in Tabs \ {t} : trip[u].at # "home" => trip[u].id # trip[t].id
  BY <1>0 DEF SignInIInv
<1>10. \A u \in Tabs \ {t} : Sound(trip[u])'
  BY <1>0, <1>2, <1>5, <1>9 DEF Sound, Uncrossed, Issued
<1>11. spent' \subseteq 1..clicks
  BY <1>0, <1>2 DEF SignInIInv, Sound
<1>12. clicks' \in Nat /\ clicks <= clicks'
  OBVIOUS
<1> QED  BY <1>0, <1>1, <1>4, <1>5, <1>8, <1>10, <1>11, <1>12, OwnStep

LEMMA AnsweredSound ==
    ASSUME SignInIInv, SignInAssumption, clicks \in Nat, NEW t \in Tabs,
           CallbackAnswered(t), UNCHANGED clicks
    PROVE  SignInIInv' /\ (trip'[t].at = "home") = (trip[t].answer = "in")
<1> DEFINE clears == trip[t].answer \in Verdicts \ {"missing"}
           base == IF clears THEN Crossed(t) ELSE trip
           r == IF trip[t].answer = "in" THEN NoTrip
                ELSE [trip[t] EXCEPT !.at = "failed", !.sent = NoState, !.answer = "none",
                                     !.alone = FALSE]
<1>0. /\ trip[t] \in Trips /\ Sound(trip[t]) /\ trip[t].at = "answered"
      /\ \A u \in Tabs : Sound(trip[u]) /\ trip[u] \in Trips
      /\ UNCHANGED spent /\ jar' = (IF clears THEN NoState ELSE jar)
      /\ trip' = [base EXCEPT ![t] = r]
  BY DEF SignInIInv, CallbackAnswered
<1>1. base \in [Tabs -> Trips]
  BY CrossedTrips DEF SignInIInv
<1>2. r \in Trips /\ (r.at = "home") = (trip[t].answer = "in")
      /\ (r.at # "home" => r.id = trip[t].id) /\ r.sent = NoState
      /\ r.answer = "none" /\ r.alone = FALSE
  <2>1. NoTrip \in Trips /\ NoTrip.at = "home" /\ NoTrip.sent = NoState /\ NoTrip.answer = "none"
        /\ NoTrip.alone = FALSE
    BY DEF NoTrip, Trips
  <2>2. \A q \in {[trip[t] EXCEPT !.at = "failed", !.sent = NoState, !.answer = "none",
                                  !.alone = FALSE]} :
           q \in Trips /\ q.at = "failed" /\ q.id = trip[t].id /\ q.sent = NoState
           /\ q.answer = "none" /\ q.alone = FALSE
    BY <1>0 DEF Trips
  <2> QED  BY <2>1, <2>2
<1>3. trip' \in [Tabs -> Trips] /\ trip'[t] = r /\ \A u \in Tabs \ {t} : trip'[u] = base[u]
  BY <1>0, <1>1, <1>2
<1>4. jar' \in Issued'
  BY <1>0 DEF SignInIInv, Issued
<1>5. \A u \in Tabs \ {t} : base[u].at = trip[u].at /\ base[u].id = trip[u].id
        /\ base[u].sent = trip[u].sent /\ base[u].answer = trip[u].answer
        /\ (clears => base[u].alone = FALSE)
  BY CrossedTrips
<1>6. Sound(trip[t])'
  BY <1>0, <1>2, <1>3 DEF Sound, Uncrossed, Issued
<1>7. \A u \in Tabs \ {t} : Sound(trip[u])'
  <2>1. CASE clears
    BY <1>0, <1>3, <1>5, <2>1 DEF Sound, Uncrossed, Issued
  <2>2. CASE ~clears
    BY <1>0, <1>3, <2>2 DEF Sound, Uncrossed, Issued
  <2> QED  BY <2>1, <2>2
<1>8. \A u, v \in Tabs :
        trip'[u].at # "home" /\ trip'[v].at # "home" /\ trip'[u].id = trip'[v].id => u = v
  BY <1>0, <1>2, <1>3, <1>5 DEF SignInIInv
<1>9. \A u \in Tabs : Sound(trip[u])'
  BY <1>6, <1>7
<1> QED  BY <1>0, <1>2, <1>3, <1>4, <1>8, <1>9 DEF SignInIInv

LEMMA AbandonSound ==
    ASSUME SignInIInv, SignInAssumption, clicks \in Nat, NEW t \in Tabs,
           Abandon(t), clicks' \in Nat, clicks <= clicks'
    PROVE  SignInIInv' /\ trip'[t].at = "home"
<1>0. /\ \A u \in Tabs : Sound(trip[u]) /\ trip[u] \in Trips
      /\ UNCHANGED <<spent, jar>> /\ trip' = [trip EXCEPT ![t] = NoTrip]
  BY DEF SignInIInv, Abandon
<1>1. NoTrip \in Trips /\ NoTrip.at = "home" /\ NoTrip.sent = NoState /\ NoTrip.answer = "none"
      /\ NoTrip.alone = FALSE
  BY DEF NoTrip, Trips
<1>2. trip'[t] = NoTrip /\ \A u \in Tabs \ {t} : trip'[u] = trip[u]
  BY <1>0 DEF SignInIInv
<1>9. 1..clicks \subseteq 1..clicks' /\ 0..clicks \subseteq 0..clicks'
  OBVIOUS
<1>10. Issued \subseteq Issued'
  BY <1>9 DEF Issued
<1>3. Sound(trip[t])'
  BY <1>1, <1>2 DEF Sound, Uncrossed, Issued
<1>4. \A u \in Tabs \ {t} : Sound(trip[u])'
  BY <1>0, <1>2, <1>9, <1>10 DEF Sound, Uncrossed
<1>5. spent' \subseteq 1..clicks
  BY <1>0 DEF SignInIInv
<1> QED  BY <1>0, <1>1, <1>2, <1>3, <1>4, <1>5, OwnStep

LEMMA ExpiresSound ==
    ASSUME SignInIInv, SignInAssumption, clicks \in Nat, CookieExpires, UNCHANGED clicks
    PROVE  SignInIInv' /\ \A t \in Tabs : trip'[t].at = trip[t].at
<1> DEFINE old == [jar EXCEPT !.id = 0]
           left(u) == [trip[u] EXCEPT !.alone = FALSE,
                                      !.sent = IF trip[u].sent = jar THEN old ELSE trip[u].sent]
<1>0. /\ \A u \in Tabs : Sound(trip[u]) /\ trip[u] \in Trips
      /\ UNCHANGED spent /\ jar' = NoState /\ jar # NoState
      /\ trip' = [u \in Tabs |-> left(u)]
  BY DEF SignInIInv, CookieExpires
<1>1. jar \in [id : 0..clicks, ret : Places]
  BY <1>0 DEF SignInIInv, Issued
<1>2. old \in Issued /\ old # NoState /\ old \in Cookies
  BY <1>1 DEF Issued, Cookies, SignInAssumption
<1>3. ASSUME NEW u \in Tabs
      PROVE  /\ left(u) \in Trips
             /\ left(u).at = trip[u].at /\ left(u).id = trip[u].id
             /\ left(u).answer = trip[u].answer /\ left(u).alone = FALSE
             /\ left(u).sent = IF trip[u].sent = jar THEN old ELSE trip[u].sent
  <2>1. PICK c : c = IF trip[u].sent = jar THEN old ELSE trip[u].sent
    OBVIOUS
  <2>2. c \in Cookies \cup {NoState}
    BY <1>0, <1>2, <2>1 DEF Trips
  <2>3. left(u) = [trip[u] EXCEPT !.alone = FALSE, !.sent = c]
    BY <2>1
  <2> HIDE DEF left, old
  <2> QED  BY <1>0, <2>1, <2>2, <2>3 DEF Trips
<1> HIDE DEF left, old
<1>4. trip' \in [Tabs -> Trips] /\ \A u \in Tabs : trip'[u] = left(u)
  BY <1>0, <1>3
<1>5. Issued' = Issued
  BY DEF Issued
<1>6. \A u \in Tabs : Sound(trip[u])'
  BY <1>0, <1>2, <1>3, <1>4, <1>5 DEF Sound, Uncrossed
<1>7. \A u, v \in Tabs :
        trip'[u].at # "home" /\ trip'[v].at # "home" /\ trip'[u].id = trip'[v].id => u = v
  <2>1. \A u \in Tabs : trip'[u].at = trip[u].at /\ trip'[u].id = trip[u].id
    BY <1>3, <1>4
  <2> QED  BY <2>1 DEF SignInIInv
<1>8. jar' \in Issued'
  BY <1>0 DEF Issued
<1>9. spent' \subseteq 1..clicks'
  BY <1>0 DEF SignInIInv
<1> QED  BY <1>3, <1>4, <1>6, <1>7, <1>8, <1>9 DEF SignInIInv
-----------------------------------------------------------------------------
(***************************************************************************)
(* The client.                                                             *)
(***************************************************************************)
QuietButtons == [b \in Buttons |-> "idle"]

\* The types of the client's variables.
ClientTypeOK ==
    /\ session \in BOOLEAN /\ linked \in BOOLEAN /\ since \in BOOLEAN
    /\ page \in {"landing", "connect", "files", "abroad"}
    /\ returnTo \in Places
    /\ form \in Targets \cup {NoTarget} /\ recent \in Targets \cup {NoTarget}
    /\ dial \in Dial \cup {NoDial}
    /\ reached \subseteq Targets /\ edited \in BOOLEAN
    /\ me \in Query /\ status \in Query
    /\ click \in [Buttons -> {"idle", "asked", "ok", "failed"}]
    /\ clicks \in 0..MaxClicks

\* A tab at the provider has no page to press a button of; the connect request
\* and its target come and go together.
Away ==
    /\ page = "abroad" => click = QuietButtons
    /\ click.connect # "idle" => dial \in Dial

\* What is remembered is what was dialled.
Dialled ==
    /\ dial \in Dial /\ ~edited => dial.typed = dial.target
    /\ click.connect = "ok" => dial.target \in reached
    /\ Remembered

\* A connection the page can know of was made since it was told of its disconnect.
Known ==
    /\ linked => session /\ since
    /\ status.data = "yes" \/ status.fetch = "yes" => since

\* The cookies of the login this tab is on hold the page it came from.
Held ==
    /\ (page = "abroad") = (trip[Here].at # "home")
    /\ \A c \in {jar, trip[Here].sent} :
         page = "abroad" /\ c # NoState /\ c.id = trip[Here].id => c.ret = returnTo
    /\ trip[Here].answer = "in" => trip[Here].sent.ret = returnTo

ClientIInv == ClientTypeOK /\ Away /\ Dialled /\ Known

BrowserIInv == SignInIInv /\ ClientIInv /\ Held

\* What navigating and loading do, for a page p.
LEMMA QueryTypes ==
    /\ NoQuery \in Query /\ NoQuery.data = "none" /\ NoQuery.fetch = "idle"
    /\ [NoQuery EXCEPT !.fetch = "asked"] \in Query
    /\ [NoQuery EXCEPT !.fetch = "idle"] \in Query
    /\ \A q \in Query : /\ Mount(q) \in Query /\ Mount(q).data = q.data
                        /\ Mount(q).fetch = "yes" => q.fetch = "yes"
    /\ \A q \in Query : q.fetch \in {"yes", "no", "failed"} =>
         /\ Delivered(q) \in Query /\ Delivered(q).fetch # "yes"
         /\ Delivered(q).data = "yes" => q.data = "yes" \/ q.fetch = "yes"
BY DEF Query, NoQuery, Mount, Delivered

LEMMA NoDialType ==
    ASSUME BrowserAssumption PROVE NoDial \notin Dial /\ NoDial.mine = FALSE
BY DEF NoDial, Dial, BrowserAssumption

LEMMA EnterKeeps ==
    ASSUME BrowserAssumption, ClientIInv, NEW p \in Guarded \cup {"landing"}, Enter(p)
    PROVE  /\ page' = p /\ page' # "abroad"
           /\ form' \in Targets \cup {NoTarget} /\ UNCHANGED <<recent, reached, edited>>
           /\ dial' \in Dial \cup {NoDial} /\ (dial \in Dial => dial' \in Dial)
           /\ dial' \in Dial => dial \in Dial
           /\ dial'.typed = dial.typed /\ dial'.target = dial.target
<1>1. page' = p /\ page' # "abroad"
      /\ form' \in Targets \cup {NoTarget} /\ UNCHANGED <<recent, reached, edited>>
  BY DEF Enter, ClientIInv, ClientTypeOK, Guarded
<1>2. CASE dial \in Dial
  BY <1>1, <1>2 DEF Enter, Dial
<1>3. CASE dial = NoDial
  <2>1. dial' = NoDial
    BY <1>3 DEF Enter, NoDial
  <2> QED  BY <1>1, <1>3, <2>1, NoDialType
<1> QED  BY <1>2, <1>3 DEF ClientIInv, ClientTypeOK

\* A step that moves only the pages keeps what was dialled.
LEMMA DialledStays ==
    ASSUME Dialled, ClientTypeOK, UNCHANGED <<click, recent, reached, edited>>,
           dial' \in Dial => dial \in Dial,
           dial'.typed = dial.typed /\ dial'.target = dial.target
    PROVE  Dialled'
BY DEF Dialled, Remembered

LEMMA GoKeeps ==
    ASSUME BrowserAssumption, ClientIInv, page # "abroad",
           NEW p \in Guarded \cup {"landing"}, Go(p),
           UNCHANGED <<serverVars, click, since>>, me' \in Query,
           returnTo' \in Places, clicks' = clicks
    PROVE  ClientIInv' /\ page' = p
<1>1. CASE page = p
  <2>1. UNCHANGED <<page, status, form, recent, dial, reached, edited>>
    BY <1>1 DEF Go, Stay, formVars
  <2> QED
    BY <1>1, <2>1 DEF ClientIInv, ClientTypeOK, Away, Dialled, Known, Remembered, serverVars,
       QuietButtons
<1>2. CASE page # p
  <2>1. Enter(p) /\ status' \in {status, Mount(status)}
    BY <1>2 DEF Go
  <2>2. status' \in Query /\ (status'.data = "yes" \/ status'.fetch = "yes" =>
                              status.data = "yes" \/ status.fetch = "yes")
    BY <2>1, QueryTypes DEF ClientIInv, ClientTypeOK
  <2>3. Dialled'
    BY <2>1, EnterKeeps, DialledStays DEF ClientIInv
  <2>4. Away' /\ Known'
    BY <2>1, <2>2, EnterKeeps DEF ClientIInv, Away, Known, serverVars
  <2>5. ClientTypeOK'
    BY <2>1, <2>2, EnterKeeps DEF ClientIInv, ClientTypeOK, serverVars, Guarded
  <2> QED  BY <2>1, <2>3, <2>4, <2>5, EnterKeeps DEF ClientIInv
<1> QED  BY <1>1, <1>2

LEMMA LoadKeeps ==
    ASSUME BrowserAssumption, ClientIInv, NEW p \in Guarded \cup {"landing", "abroad"}, Load(p),
           since' = since, (linked' = linked /\ session' = session)
                           \/ (linked' = FALSE /\ session' = TRUE),
           returnTo' \in Places, clicks' \in 0..MaxClicks
    PROVE  ClientIInv' /\ page' = p
<1>1. /\ page' = p /\ click' = QuietButtons /\ form' = NoTarget /\ dial' = NoDial
      /\ UNCHANGED <<recent, reached, edited>> /\ status' = NoQuery /\ me' \in Query
  BY QueryTypes DEF Load, QuietButtons
<1>2. click'.connect = "idle" /\ dial' \notin Dial
  BY <1>1, NoDialType DEF QuietButtons, Buttons
<1>3. Away'
  BY <1>1, <1>2 DEF Away, QuietButtons
<1>4. Dialled' /\ Known'
  BY <1>1, <1>2, QueryTypes DEF ClientIInv, Dialled, Known, Remembered
<1>5. QuietButtons \in [Buttons -> {"idle", "asked", "ok", "failed"}]
  BY DEF QuietButtons
<1>6. ClientTypeOK'
  BY <1>1, <1>5, QueryTypes DEF ClientIInv, ClientTypeOK, Guarded
<1> QED  BY <1>1, <1>3, <1>4, <1>6 DEF ClientIInv
\* A step that leaves the logins alone.
LEMMA PlainStep ==
    ASSUME BrowserAssumption, BrowserIInv, ClientIInv', UNCHANGED signInVars,
           clicks' = clicks \/ clicks' = clicks + 1,
           (page' = "abroad") = (page = "abroad"), page = "abroad" => returnTo' = returnTo
    PROVE  BrowserIInv'
<1>1. clicks \in Nat /\ clicks' \in Nat /\ clicks <= clicks'
  BY DEF BrowserIInv, ClientIInv, ClientTypeOK, BrowserAssumption
<1>2. SignInIInv'
  BY <1>1, SignInGrows DEF BrowserIInv
<1>3. trip[Here].answer = "in" => page = "abroad"
  BY DEF BrowserIInv, SignInIInv, Sound, Held, BrowserAssumption
<1>4. Held'
  BY <1>3 DEF BrowserIInv, Held, signInVars
<1> QED  BY <1>2, <1>4 DEF BrowserIInv

LEMMA QueriesKeep ==
    ASSUME BrowserAssumption, BrowserIInv,
           MeServed \/ StatusServed \/ MeDelivered \/ StatusDelivered
    PROVE  BrowserIInv'
<1> USE DEF serverVars, formVars
<1>0. ClientIInv /\ me \in Query /\ status \in Query
  BY DEF BrowserIInv, ClientIInv, ClientTypeOK
<1>1. CASE MeServed
  <2>1. me' \in Query
    BY <1>0, <1>1 DEF MeServed, Query, YesNo
  <2>2. ClientIInv'
    BY <1>0, <1>1, <2>1 DEF MeServed, ClientIInv, ClientTypeOK, Away, Dialled, Known, Remembered,
       QuietButtons
  <2> QED  BY <1>1, <2>2, PlainStep DEF MeServed
<1>2. CASE StatusServed
  <2>1. status' \in Query /\ status'.data = status.data /\ (status'.fetch = "yes" => linked)
    BY <1>0, <1>2 DEF StatusServed, Query, YesNo
  <2>2. ClientIInv'
    BY <1>0, <1>2, <2>1 DEF StatusServed, ClientIInv, ClientTypeOK, Away, Dialled, Known,
       Remembered, QuietButtons
  <2> QED  BY <1>2, <2>2, PlainStep DEF StatusServed
<1>3. CASE MeDelivered
  <2>1. me' \in Query
    BY <1>0, <1>3, QueryTypes DEF MeDelivered
  <2>2. CASE page \in Guarded /\ me.fetch = "yes"
    <3>1. Enter(page) /\ status' = Mount(status)
          /\ UNCHANGED <<serverVars, signInVars, returnTo, click, since, clicks>>
      BY <1>3, <2>2 DEF MeDelivered
    <3>2. status' \in Query /\ (status'.data = "yes" \/ status'.fetch = "yes" =>
                                status.data = "yes" \/ status.fetch = "yes")
      BY <1>0, <3>1, QueryTypes
    <3>3. Dialled'
      BY <1>0, <2>2, <3>1, EnterKeeps, DialledStays DEF ClientIInv
    <3>4. Away' /\ Known'
      BY <1>0, <2>2, <3>1, <3>2, EnterKeeps DEF ClientIInv, Away, Known
    <3>5. ClientTypeOK' /\ page' = page
      BY <1>0, <2>1, <2>2, <3>1, <3>2, EnterKeeps DEF ClientIInv, ClientTypeOK
    <3>6. ClientIInv'
      BY <3>3, <3>4, <3>5 DEF ClientIInv
    <3> QED  BY <3>1, <3>5, <3>6, PlainStep
  <2>3. CASE ~(page \in Guarded /\ me.fetch = "yes")
    <3>1. UNCHANGED <<page, status, formVars, serverVars, signInVars, returnTo, click, since, clicks>>
      BY <1>3, <2>3 DEF MeDelivered, Stay
    <3>2. ClientIInv'
      BY <1>0, <2>1, <3>1 DEF ClientIInv, ClientTypeOK, Away, Dialled, Known, Remembered,
         QuietButtons
    <3> QED  BY <3>1, <3>2, PlainStep
  <2> QED  BY <2>2, <2>3
<1>4. CASE StatusDelivered
  <2>1. status' \in Query /\ (status'.data = "yes" \/ status'.fetch = "yes" =>
                              status.data = "yes" \/ status.fetch = "yes")
    BY <1>0, <1>4, QueryTypes DEF StatusDelivered
  <2>2. ClientIInv'
    BY <1>0, <1>4, <2>1 DEF StatusDelivered, ClientIInv, ClientTypeOK, Away, Dialled, Known,
       Remembered, QuietButtons
  <2> QED  BY <1>4, <2>2, PlainStep DEF StatusDelivered
<1> QED  BY <1>1, <1>2, <1>3, <1>4

LEMMA RedirectsKeep ==
    ASSUME BrowserAssumption, BrowserIInv, Redirect
    PROVE  BrowserIInv'
<1>0. ClientIInv /\ me \in Query /\ returnTo \in Guarded /\ Places = Guarded
  BY DEF BrowserIInv, ClientIInv, ClientTypeOK, BrowserAssumption
<1>1. PICK p \in Guarded \cup {"landing"} :
        Go(p) /\ page # "abroad" /\ returnTo' \in Places
        /\ UNCHANGED <<serverVars, signInVars, me, click, since, clicks>>
  BY <1>0 DEF Redirect, TurnAway, Welcome, ToFiles, ToConnect, Shown, Guarded
<1>2. ClientIInv' /\ page' # "abroad"
  BY <1>0, <1>1, GoKeeps DEF Guarded
<1> QED  BY <1>1, <1>2, PlainStep

LEMMA FormKeeps ==
    ASSUME BrowserAssumption, BrowserIInv,
           (\E t \in Targets : Edit(t)) \/ ConnectClick \/ ConnectServed \/ ConnectAnswered
    PROVE  BrowserIInv'
<1> USE DEF serverVars, formVars, Buttons
<1>0. /\ ClientIInv /\ ClientTypeOK /\ Away /\ Dialled /\ Known
      /\ dial \in Dial \cup {NoDial} /\ NoDial \notin Dial /\ ~NoDial.mine
  BY NoDialType DEF BrowserIInv, ClientIInv, ClientTypeOK
<1>1. ASSUME NEW t \in Targets, Edit(t) PROVE BrowserIInv'
  <2>1. dial' \in Dial \cup {NoDial} /\ (dial' \in Dial) = (dial \in Dial)
        /\ dial'.target = dial.target /\ (~dial.mine => dial' = dial)
    BY <1>0, <1>1 DEF Edit, Dial
  <2>2. edited' = (edited \/ dial.mine) /\ UNCHANGED <<click, recent, reached>>
    BY <1>1 DEF Edit
  <2>3. Dialled'
    BY <1>0, <2>1, <2>2 DEF Dialled, Remembered
  <2>4. dial.mine \in BOOLEAN
    <3>1. CASE dial \in Dial
      BY <3>1 DEF Dial
    <3>2. CASE dial = NoDial
      BY <3>2 DEF NoDial
    <3> QED  BY <1>0, <3>1, <3>2
  <2>5. edited' \in BOOLEAN
    BY <1>0, <2>2, <2>4 DEF ClientTypeOK
  <2>6. clicks' \in 0..MaxClicks /\ clicks' = clicks + 1
    BY <1>0, <1>1 DEF Edit, Count, ClientTypeOK, BrowserAssumption
  <2>7. ClientTypeOK'
    BY <1>0, <1>1, <2>1, <2>5, <2>6 DEF Edit, ClientTypeOK
  <2>8. Away' /\ Known'
    BY <1>0, <1>1, <2>1 DEF Edit, Away, Known, QuietButtons
  <2> QED  BY <1>1, <2>3, <2>6, <2>7, <2>8, PlainStep DEF ClientIInv, Edit
<1>2. CASE ConnectClick
  <2>1. form \in Targets
    BY <1>0, <1>2 DEF ConnectClick, ClientTypeOK
  <2>2. dial' \in Dial /\ dial'.typed = dial'.target
    BY <1>2, <2>1 DEF ConnectClick, Dial
  <2>3. click' \in [Buttons -> {"idle", "asked", "ok", "failed"}] /\ click'.connect = "asked"
    BY <1>0, <1>2 DEF ConnectClick, ClientTypeOK
  <2>4. clicks' \in 0..MaxClicks /\ clicks' = clicks + 1
    BY <1>0, <1>2 DEF ConnectClick, Count, ClientTypeOK, BrowserAssumption
  <2>5. page = "connect"
    BY <1>2 DEF ConnectClick, Shown
  <2>6. Away' /\ Known' /\ Dialled'
    BY <1>0, <1>2, <2>2, <2>3, <2>5 DEF ConnectClick, Away, Known, Dialled, Remembered
  <2>7. ClientTypeOK'
    BY <1>0, <1>2, <2>2, <2>3, <2>4 DEF ConnectClick, ClientTypeOK
  <2> QED  BY <1>2, <2>4, <2>6, <2>7, PlainStep DEF ClientIInv, ConnectClick
<1>3. CASE ConnectServed
  <2>1. dial \in Dial /\ dial.target \in Targets
    BY <1>0, <1>3 DEF ConnectServed, Away, Dial
  <2>2. /\ UNCHANGED <<session, signInVars, page, returnTo, me, status, form, recent, dial, edited,
                       clicks>>
        /\ \/ linked' = linked /\ since' = since /\ reached' = reached
           \/ session /\ linked' = TRUE /\ since' = TRUE /\ reached' = reached \cup {dial.target}
        /\ click'.connect = "ok" => dial.target \in reached'
        /\ click' \in [Buttons -> {"idle", "asked", "ok", "failed"}]
        /\ click # QuietButtons
    BY <1>0, <1>3 DEF ConnectServed, ClientTypeOK, QuietButtons
  <2>3. Away' /\ Known' /\ Dialled'
    BY <1>0, <2>1, <2>2 DEF Away, Known, Dialled, Remembered
  <2>4. ClientTypeOK'
    BY <1>0, <2>1, <2>2 DEF ClientTypeOK
  <2> QED  BY <2>2, <2>3, <2>4, PlainStep DEF ClientIInv
<1>4. CASE ConnectAnswered
  <2>1. /\ dial \in Dial /\ dial.typed \in Targets /\ page # "abroad"
    BY <1>0, <1>4 DEF ConnectAnswered, Away, Dial, QuietButtons
  <2>2. click' \in [Buttons -> {"idle", "asked", "ok", "failed"}] /\ click'.connect = "idle"
    BY <1>0, <1>4 DEF ConnectAnswered, ClientTypeOK
  <2>3. /\ dial' = NoDial
        /\ UNCHANGED <<serverVars, signInVars, returnTo, me, reached, edited, since, clicks>>
    BY <1>4 DEF ConnectAnswered
  <2>4. CASE click.connect = "ok"
    <3>1. recent' = dial.typed /\ page' = "files" /\ form' = NoTarget
          /\ status' \in {status, Mount(status)}
      BY <1>4, <2>4 DEF ConnectAnswered
    <3>2. status' \in Query /\ (status'.data = "yes" \/ status'.fetch = "yes" =>
                                status.data = "yes" \/ status.fetch = "yes")
      BY <1>0, <3>1, QueryTypes DEF ClientTypeOK
    <3>3. Away' /\ Known' /\ Dialled'
      BY <1>0, <2>1, <2>2, <2>3, <2>4, <3>1, <3>2 DEF Away, Known, Dialled, Remembered
    <3>4. ClientTypeOK'
      BY <1>0, <2>1, <2>2, <2>3, <3>1, <3>2 DEF ClientTypeOK
    <3> QED  BY <2>1, <2>3, <3>1, <3>3, <3>4, PlainStep DEF ClientIInv
  <2>5. CASE click.connect # "ok"
    <3>1. UNCHANGED <<page, status, form, recent>>
      BY <1>4, <2>5 DEF ConnectAnswered
    <3>2. Away' /\ Known' /\ Dialled'
      BY <1>0, <2>1, <2>2, <2>3, <3>1 DEF Away, Known, Dialled, Remembered
    <3>3. ClientTypeOK'
      BY <1>0, <2>2, <2>3, <3>1 DEF ClientTypeOK
    <3> QED  BY <2>3, <3>1, <3>2, <3>3, PlainStep DEF ClientIInv
  <2> QED  BY <2>4, <2>5
<1> QED  BY <1>1, <1>2, <1>3, <1>4
LEMMA ButtonsKeep ==
    ASSUME BrowserAssumption, BrowserIInv,
           \/ DisconnectClick \/ LogoutClick \/ DisconnectServed \/ LogoutServed
           \/ DisconnectAnswered \/ LogoutAnswered
    PROVE  BrowserIInv'
<1> USE DEF serverVars, formVars, Buttons
<1>0. /\ ClientIInv /\ ClientTypeOK /\ Away /\ Dialled /\ Known
      /\ page = "abroad" => \A b \in Buttons : click[b] = "idle"
  BY DEF BrowserIInv, ClientIInv, Away, QuietButtons
<1>1. ASSUME NEW b \in {"disconnect", "logout"}, NEW p \in Guarded, Click(b, p)
      PROVE  BrowserIInv'
  <2>1. clicks' \in 0..MaxClicks /\ clicks' = clicks + 1
    BY <1>0, <1>1 DEF Click, Count, ClientTypeOK, BrowserAssumption
  <2>2. click' \in [Buttons -> {"idle", "asked", "ok", "failed"}]
        /\ click'.connect = click.connect /\ page # "abroad"
        /\ UNCHANGED <<serverVars, signInVars, page, returnTo, me, status, formVars, since>>
    BY <1>0, <1>1 DEF Click, Shown, Guarded, ClientTypeOK
  <2>3. ClientIInv'
    BY <1>0, <2>1, <2>2 DEF ClientIInv, ClientTypeOK, Away, Dialled, Known, Remembered
  <2> QED  BY <2>1, <2>2, <2>3, PlainStep
<1>2. CASE DisconnectServed \/ LogoutServed
  <2>1. /\ click' \in [Buttons -> {"idle", "asked", "ok", "failed"}]
        /\ click'.connect = click.connect /\ page # "abroad"
        /\ UNCHANGED <<signInVars, page, returnTo, me, status, formVars, since, clicks>>
    BY <1>0, <1>2 DEF DisconnectServed, LogoutServed, ClientTypeOK
  <2>3. /\ session' \in BOOLEAN /\ linked' \in BOOLEAN
        /\ (linked' => linked /\ session' = session)
    <3>1. CASE UNCHANGED serverVars
      BY <1>0, <3>1 DEF ClientTypeOK
    <3>2. CASE linked' = FALSE /\ session' \in {session, FALSE}
      BY <1>0, <3>2 DEF ClientTypeOK
    <3> QED  BY <1>2, <3>1, <3>2 DEF DisconnectServed, LogoutServed
  <2>2. ClientIInv'
    BY <1>0, <2>1, <2>3 DEF ClientIInv, ClientTypeOK, Away, Dialled, Known, Remembered
  <2> QED  BY <2>1, <2>2, PlainStep
<1>3. CASE DisconnectAnswered
  <2>1. click' \in [Buttons -> {"idle", "asked", "ok", "failed"}]
        /\ click'.connect = click.connect /\ page # "abroad"
        /\ UNCHANGED <<serverVars, signInVars, returnTo, me, clicks>>
    BY <1>0, <1>3 DEF DisconnectAnswered, ClientTypeOK
  <2>2. CASE click.disconnect = "ok"
    <3>1. /\ UNCHANGED <<page, formVars>> \/ Enter("connect")
          /\ status' = Mount(NoQuery) /\ since' = linked
      BY <1>3, <2>2 DEF DisconnectAnswered
    <3>2. status' \in Query /\ status'.data # "yes" /\ status'.fetch # "yes"
      BY <3>1, QueryTypes
    <3>3. /\ page' # "abroad" /\ page' \in {"landing", "connect", "files", "abroad"}
          /\ form' \in Targets \cup {NoTarget} /\ UNCHANGED <<recent, reached, edited>>
          /\ dial' \in Dial \cup {NoDial} /\ (dial \in Dial => dial' \in Dial)
          /\ dial' \in Dial => dial \in Dial
          /\ dial'.typed = dial.typed /\ dial'.target = dial.target
      BY <1>0, <2>1, <3>1, EnterKeeps DEF ClientTypeOK, Guarded
    <3>4. Away' /\ Known'
      BY <1>0, <2>1, <3>1, <3>2, <3>3 DEF Away, Known
    <3>5. Dialled'
      BY <1>0, <2>1, <3>3 DEF Dialled, Remembered
    <3>6. ClientTypeOK'
      BY <1>0, <2>1, <3>1, <3>2, <3>3 DEF ClientTypeOK
    <3> QED  BY <2>1, <3>3, <3>4, <3>5, <3>6, PlainStep DEF ClientIInv
  <2>3. CASE click.disconnect # "ok"
    <3>1. UNCHANGED <<page, status, formVars, since>>
      BY <1>3, <2>3 DEF DisconnectAnswered, Stay
    <3>2. ClientIInv'
      BY <1>0, <2>1, <3>1 DEF ClientIInv, ClientTypeOK, Away, Dialled, Known, Remembered
    <3> QED  BY <2>1, <3>1, <3>2, PlainStep
  <2> QED  BY <2>2, <2>3
<1>4. CASE LogoutAnswered
  <2>1. page # "abroad" /\ UNCHANGED <<serverVars, signInVars, since, clicks>>
    BY <1>0, <1>4 DEF LogoutAnswered
  <2>2. CASE click.logout = "ok"
    <3>1. Load("landing") /\ returnTo' \in Places
      BY <1>4, <2>2 DEF LogoutAnswered, BrowserAssumption, Guarded
    <3>2. clicks' \in 0..MaxClicks
      BY <1>0, <2>1 DEF ClientTypeOK
    <3>3. ClientIInv' /\ page' = "landing"
      BY <1>0, <2>1, <3>1, <3>2, LoadKeeps
    <3> QED  BY <2>1, <3>3, PlainStep
  <2>3. CASE click.logout # "ok"
    <3>1. /\ UNCHANGED <<page, status, formVars, me, returnTo>>
          /\ click' = [click EXCEPT !.logout = "idle"]
      BY <1>4, <2>3 DEF LogoutAnswered, Stay
    <3>2. click' \in [Buttons -> {"idle", "asked", "ok", "failed"}]
          /\ click'.connect = click.connect
      BY <1>0, <3>1 DEF ClientTypeOK
    <3>3. ClientIInv'
      BY <1>0, <2>1, <3>1, <3>2 DEF ClientIInv, ClientTypeOK, Away, Dialled, Known, Remembered
    <3> QED  BY <2>1, <3>1, <3>3, PlainStep
  <2> QED  BY <2>2, <2>3
<1> QED  BY <1>1, <1>2, <1>3, <1>4 DEF DisconnectClick, LogoutClick, Guarded

LEMMA OutsideKeeps ==
    ASSUME BrowserAssumption, BrowserIInv, Reload \/ Elsewhere
    PROVE  BrowserIInv'
<1> USE DEF serverVars, formVars
<1>0. /\ ClientIInv /\ ClientTypeOK /\ Away /\ Dialled /\ Known
  BY DEF BrowserIInv, ClientIInv
<1>1. clicks' \in 0..MaxClicks /\ clicks' = clicks + 1
  BY <1>0 DEF Reload, Elsewhere, Count, ClientTypeOK, BrowserAssumption
<1>2. CASE Reload
  <2>1. /\ page \in Guarded \cup {"landing"} /\ Load(page)
        /\ UNCHANGED <<serverVars, signInVars, returnTo, since>>
    BY <1>0, <1>2 DEF Reload, ClientTypeOK, Guarded
  <2>2. returnTo' \in Places
    BY <1>0, <2>1 DEF ClientTypeOK
  <2>3. ClientIInv' /\ page' = page
    BY <1>0, <1>1, <2>1, <2>2, LoadKeeps
  <2> QED  BY <1>1, <2>1, <2>3, PlainStep
<1>3. CASE Elsewhere
  <2>1. /\ session' \in BOOLEAN /\ linked' \in BOOLEAN /\ since' = (since \/ linked')
        /\ linked' => session'
        /\ \/ UNCHANGED <<recent, reached>>
           \/ recent' \in Targets /\ reached' = reached \cup {recent'}
        /\ UNCHANGED <<signInVars, page, returnTo, me, status, click, form, dial, edited>>
    BY <1>0, <1>3 DEF Elsewhere, ClientTypeOK, Known
  <2>2. since' \in BOOLEAN /\ reached' \subseteq Targets /\ recent' \in Targets \cup {NoTarget}
    BY <1>0, <2>1 DEF ClientTypeOK
  <2>3. Away' /\ Known'
    BY <1>0, <2>1 DEF Away, Known, QuietButtons
  <2>4. Dialled'
    BY <1>0, <2>1 DEF Dialled, Remembered
  <2>5. ClientTypeOK'
    BY <1>0, <1>1, <2>1, <2>2 DEF ClientTypeOK
  <2> QED  BY <1>1, <2>1, <2>3, <2>4, <2>5, PlainStep DEF ClientIInv
<1> QED  BY <1>2, <1>3
-----------------------------------------------------------------------------
(***************************************************************************)
(* Signing in, as the client takes part in it.                             *)
(***************************************************************************)
\* The others' steps leave the trip of this tab where it is.
LEMMA HereApart ==
    ASSUME BrowserAssumption, SignInIInv, NEW t \in Tabs \ {Here},
           \/ \E p \in Places, n \in Nat : LoginStart(t, p, n)
           \/ ProviderReturn(t) \/ CallbackServed(t) \/ CallbackAnswered(t)
    PROVE  /\ trip'[Here].at = trip[Here].at /\ trip'[Here].id = trip[Here].id
           /\ trip'[Here].sent = trip[Here].sent /\ trip'[Here].answer = trip[Here].answer
<1>0. Here \in Tabs /\ t \in Tabs /\ Here # t /\ trip \in [Tabs -> Trips]
  BY DEF BrowserAssumption, SignInIInv
<1>1. trip'[Here] = trip[Here] \/ trip'[Here] = Crossed(t)[Here]
  <2>1. Crossed(t) \in [Tabs -> Trips]
    BY <1>0, CrossedTrips
  <2> QED
    BY <1>0, <2>1 DEF LoginStart, ProviderReturn, CallbackServed, CallbackAnswered
<1>2. /\ Crossed(t)[Here].at = trip[Here].at /\ Crossed(t)[Here].id = trip[Here].id
      /\ Crossed(t)[Here].sent = trip[Here].sent /\ Crossed(t)[Here].answer = trip[Here].answer
  BY <1>0, CrossedTrips
<1> QED  BY <1>1, <1>2

\* The client, when only others act.
LEMMA ClientStays ==
    ASSUME BrowserAssumption, ClientIInv,
           UNCHANGED <<page, returnTo, me, status, click, formVars, since>>,
           \/ UNCHANGED serverVars
           \/ session' = TRUE /\ linked' = FALSE,
           clicks' \in 0..MaxClicks
    PROVE  ClientIInv'
<1> USE DEF serverVars, formVars
<1>1. session' \in BOOLEAN /\ linked' \in BOOLEAN /\ (linked' => linked /\ session' = session)
  <2>1. CASE UNCHANGED serverVars
    BY <2>1 DEF ClientIInv, ClientTypeOK
  <2>2. CASE session' = TRUE /\ linked' = FALSE
    BY <2>2
  <2> QED  BY <2>1, <2>2
<1>2. Away' /\ Dialled'
  BY DEF ClientIInv, Away, Dialled, Remembered, QuietButtons
<1>3. Known'
  BY <1>1 DEF ClientIInv, Known
<1>4. ClientTypeOK'
  BY <1>1 DEF ClientIInv, ClientTypeOK
<1> QED  BY <1>2, <1>3, <1>4 DEF ClientIInv

LEMMA TripFacts ==
    ASSUME BrowserAssumption, BrowserIInv
    PROVE  /\ SignInIInv /\ ClientIInv /\ clicks \in Nat /\ clicks \in 0..MaxClicks
           /\ Here \in Tabs /\ Places = Guarded /\ returnTo \in Places
           /\ page = "abroad" => trip[Here].id \in 1..clicks
           /\ trip[Here].answer # "none" => page = "abroad" /\ trip[Here].at = "answered"
           /\ trip[Here] \in Trips
BY DEF BrowserIInv, SignInIInv, ClientIInv, ClientTypeOK, Held, Sound, BrowserAssumption

LEMMA LeavesToSignIn ==
    ASSUME BrowserAssumption, SignInAssumption, BrowserIInv, SignInClick
    PROVE  BrowserIInv'
<1>0. clicks' \in 0..MaxClicks /\ clicks' = clicks + 1 /\ clicks' \in Nat
  BY TripFacts DEF SignInClick, Count, BrowserAssumption
<1>1. LoginStart(Here, returnTo, clicks') /\ Load("abroad") /\ UNCHANGED <<serverVars, returnTo, since>>
  BY DEF SignInClick
<1>2. SignInIInv' /\ trip'[Here].at = "abroad"
  BY <1>0, <1>1, TripFacts, LoginStartSound
<1>3. returnTo' \in Places /\ UNCHANGED <<session, linked>>
  BY <1>1, TripFacts DEF serverVars
<1>4. ClientIInv' /\ page' = "abroad"
  BY <1>0, <1>1, <1>3, TripFacts, LoadKeeps
<1>5. trip'[Here].sent = NoState /\ trip'[Here].answer = "none"
  <2>1. [NoTrip EXCEPT !.at = "abroad", !.id = clicks', !.alone = TRUE].sent = NoState
        /\ [NoTrip EXCEPT !.at = "abroad", !.id = clicks', !.alone = TRUE].answer = "none"
    BY DEF NoTrip
  <2>2. Crossed(Here) \in [Tabs -> Trips]
    BY TripFacts, CrossedTrips
  <2> QED  BY <1>1, <2>1, <2>2, TripFacts DEF LoginStart
<1>6. jar'.ret = returnTo
  BY <1>1 DEF LoginStart
<1>7. Held'
  BY <1>1, <1>2, <1>4, <1>5, <1>6 DEF Held
<1> QED  BY <1>2, <1>4, <1>7 DEF BrowserIInv

LEMMA ComesBack ==
    ASSUME BrowserAssumption, SignInAssumption, BrowserIInv, Arrive
    PROVE  BrowserIInv' /\ (page' # "abroad" => page' = returnTo)
<1>0. /\ trip[Here].at = "answered" /\ UNCHANGED <<returnTo, since, clicks>>
      /\ page = "abroad" /\ CallbackAnswered(Here)
  BY DEF Arrive, CallbackAnswered, BrowserIInv, Held
<1>1. SignInIInv' /\ (trip'[Here].at = "home") = (trip[Here].answer = "in")
  BY <1>0, TripFacts, AnsweredSound
<1>2. CASE trip[Here].answer = "in"
  <2>1. trip[Here].sent.ret = returnTo
    BY <1>2 DEF BrowserIInv, Held
  <2>2. Load(returnTo) /\ session' = TRUE /\ linked' = FALSE
    BY <1>2, <2>1 DEF Arrive, NewSession
  <2>3. returnTo' \in Places /\ clicks' \in 0..MaxClicks /\ returnTo \in Guarded
    BY <1>0, TripFacts
  <2>4. ClientIInv' /\ page' = returnTo
    BY <1>0, <2>2, <2>3, TripFacts, LoadKeeps
  <2>5. trip'[Here] = NoTrip
    <3>1. Crossed(Here) \in [Tabs -> Trips]
      BY TripFacts, CrossedTrips
    <3> QED  BY <1>2, <3>1, TripFacts, <1>0 DEF CallbackAnswered, Verdicts
  <2>6. Held'
    BY <2>3, <2>4, <2>5 DEF Held, NoTrip, Guarded
  <2> QED  BY <1>1, <2>4, <2>6 DEF BrowserIInv
<1>3. CASE trip[Here].answer # "in"
  <2>1. UNCHANGED <<serverVars, page, me, status, click, formVars>>
    BY <1>3 DEF Arrive
  <2>2. clicks' \in 0..MaxClicks
    BY <1>0, TripFacts
  <2>3. ClientIInv'
    BY <1>0, <2>1, <2>2, TripFacts, ClientStays
  <2>4. /\ trip'[Here].at # "home" /\ trip'[Here].sent = NoState
        /\ trip'[Here].id = trip[Here].id /\ trip'[Here].answer = "none"
    <3> DEFINE r == [trip[Here] EXCEPT !.at = "failed", !.sent = NoState, !.answer = "none",
                                       !.alone = FALSE]
    <3>1. r.at = "failed" /\ r.sent = NoState /\ r.id = trip[Here].id /\ r.answer = "none"
      BY TripFacts DEF Trips
    <3>2. Crossed(Here) \in [Tabs -> Trips] /\ trip \in [Tabs -> Trips]
      BY TripFacts, CrossedTrips DEF SignInIInv
    <3>3. trip'[Here] = r
      BY <1>0, <1>3, <3>2, TripFacts DEF CallbackAnswered
    <3> QED  BY <3>1, <3>3
  <2>5. jar' \in {jar, NoState}
    BY <1>0 DEF CallbackAnswered
  <2>6. Held'
    BY <1>0, <2>1, <2>4, <2>5 DEF BrowserIInv, Held
  <2> QED  BY <1>0, <1>1, <2>1, <2>3, <2>6 DEF BrowserIInv
<1> QED  BY <1>2, <1>3

LEMMA StaysAbroad ==
    ASSUME BrowserAssumption, SignInAssumption, BrowserIInv, GoHome \/ TryAgain
    PROVE  BrowserIInv' /\ page' \in {page, "landing"}
<1>0. clicks' \in 0..MaxClicks /\ clicks' = clicks + 1 /\ clicks' \in Nat /\ clicks \in Nat
  BY TripFacts DEF GoHome, TryAgain, Count, BrowserAssumption
<1>1. CASE GoHome
  <2>1. /\ Abandon(Here) /\ Load("landing") /\ UNCHANGED <<session, linked, returnTo, since>>
        /\ returnTo' \in Places
    BY <1>1, TripFacts DEF GoHome, serverVars
  <2>2. ClientIInv' /\ page' = "landing"
    BY <1>0, <2>1, TripFacts, LoadKeeps
  <2>3. trip'[Here] = NoTrip
    BY <2>1, TripFacts DEF Abandon, SignInIInv
  <2>4. SignInIInv'
    BY <1>0, <2>1, AbandonSound, TripFacts
  <2>5. Held'
    BY <2>2, <2>3 DEF Held, NoTrip
  <2> QED  BY <2>2, <2>4, <2>5 DEF BrowserIInv
<1>2. CASE TryAgain
  <2>1. /\ CallbackAgain(Here)
        /\ UNCHANGED <<serverVars, page, returnTo, me, status, click, formVars, since>>
    BY <1>2 DEF TryAgain
  <2>2. ClientIInv'
    BY <1>0, <2>1, TripFacts, ClientStays
  <2>3. SignInIInv'
    BY <1>0, <2>1, SendSound, TripFacts
  <2>4. /\ trip'[Here].at = "asked" /\ trip'[Here].sent = jar /\ jar' = jar
        /\ trip'[Here].id = trip[Here].id /\ trip'[Here].answer = trip[Here].answer
        /\ trip[Here].at = "failed"
    <3> DEFINE r == [trip[Here] EXCEPT !.at = "asked", !.sent = jar]
    <3>1. trip'[Here] = r /\ jar' = jar /\ trip[Here].at = "failed"
      BY <2>1, TripFacts DEF CallbackAgain, SignInIInv
    <3>2. r.at = "asked" /\ r.sent = jar /\ r.id = trip[Here].id /\ r.answer = trip[Here].answer
      BY TripFacts DEF Trips
    <3> QED  BY <3>1, <3>2
  <2>5. trip[Here].answer = "none" /\ page = "abroad"
    BY <2>4, TripFacts DEF BrowserIInv, Held
  <2>6. Held'
    BY <2>1, <2>4, <2>5 DEF BrowserIInv, Held
  <2> QED  BY <2>1, <2>2, <2>3, <2>6 DEF BrowserIInv
<1> QED  BY <1>1, <1>2
\* A step of the others, or of nobody, under which this tab's trip stays as it is.
LEMMA HeldApart ==
    ASSUME BrowserAssumption, BrowserIInv, UNCHANGED <<page, returnTo>>,
           trip'[Here].at = trip[Here].at, trip'[Here].id = trip[Here].id,
           trip'[Here].sent = trip[Here].sent, trip'[Here].answer = trip[Here].answer,
           jar' # NoState => jar' = jar \/ jar'.id \notin 1..clicks
    PROVE  Held'
BY TripFacts DEF BrowserIInv, Held

LEMMA OthersSignIn ==
    ASSUME BrowserAssumption, SignInAssumption, BrowserIInv,
           SignInElsewhere \/ \E t \in Tabs \ {Here} : ArriveElsewhere(t)
    PROVE  BrowserIInv' /\ page' = page
<1>1. CASE SignInElsewhere
  <2>1. PICK t \in Tabs \ {Here}, p \in Places : LoginStart(t, p, clicks')
    BY <1>1 DEF SignInElsewhere
  <2>2. /\ clicks' \in 0..MaxClicks /\ clicks' = clicks + 1 /\ clicks' \in Nat
        /\ UNCHANGED <<serverVars, page, returnTo, me, status, click, formVars, since>>
    BY <1>1, TripFacts DEF SignInElsewhere, Count, BrowserAssumption
  <2>3. SignInIInv'
    BY <2>1, <2>2, TripFacts, LoginStartSound
  <2>4. ClientIInv'
    BY <2>2, TripFacts, ClientStays
  <2>5. /\ trip'[Here].at = trip[Here].at /\ trip'[Here].id = trip[Here].id
        /\ trip'[Here].sent = trip[Here].sent /\ trip'[Here].answer = trip[Here].answer
    BY <2>1, <2>2, TripFacts, HereApart
  <2>6. jar'.id \notin 1..clicks
    BY <2>1, <2>2, TripFacts DEF LoginStart
  <2>7. Held'
    BY <2>2, <2>5, <2>6, HeldApart
  <2> QED  BY <2>2, <2>3, <2>4, <2>7 DEF BrowserIInv
<1>2. ASSUME NEW t \in Tabs \ {Here}, ArriveElsewhere(t) PROVE BrowserIInv' /\ page' = page
  <2>1. /\ CallbackAnswered(t) /\ (UNCHANGED serverVars \/ NewSession)
        /\ UNCHANGED <<page, returnTo, me, status, click, formVars, since, clicks>>
    BY <1>2 DEF ArriveElsewhere
  <2>2. SignInIInv'
    BY <2>1, TripFacts, AnsweredSound
  <2>3. ClientIInv'
    BY <2>1, TripFacts, ClientStays DEF NewSession
  <2>4. /\ trip'[Here].at = trip[Here].at /\ trip'[Here].id = trip[Here].id
        /\ trip'[Here].sent = trip[Here].sent /\ trip'[Here].answer = trip[Here].answer
    BY <2>1, TripFacts, HereApart
  <2>5. jar' # NoState => jar' = jar
    BY <2>1 DEF CallbackAnswered
  <2>6. Held'
    BY <2>1, <2>4, <2>5, HeldApart
  <2> QED  BY <2>1, <2>2, <2>3, <2>6 DEF BrowserIInv
<1> QED  BY <1>1, <1>2

LEMMA SignInGoesOn ==
    ASSUME BrowserAssumption, SignInAssumption, BrowserIInv, SignInStep
    PROVE  BrowserIInv' /\ page' = page
<1>1. /\ UNCHANGED <<serverVars, page, returnTo, me, status, click, formVars, since, clicks>>
      /\ clicks' \in 0..MaxClicks
  BY TripFacts DEF SignInStep
<1>2. ClientIInv'
  BY <1>1, TripFacts, ClientStays
<1>3. SignInIInv' /\ Held'
  <2>1. ASSUME NEW t \in Tabs \ {Here}, ProviderReturn(t) \/ CallbackServed(t)
        PROVE  SignInIInv' /\ Held'
    <3>1. SignInIInv'
      BY <1>1, <2>1, TripFacts, SendSound, ServedSound
    <3>2. jar' = jar
      BY <2>1 DEF ProviderReturn, CallbackServed
    <3>3. /\ trip'[Here].at = trip[Here].at /\ trip'[Here].id = trip[Here].id
          /\ trip'[Here].sent = trip[Here].sent /\ trip'[Here].answer = trip[Here].answer
      BY <2>1, TripFacts, HereApart
    <3>4. Held'
      BY <1>1, <3>2, <3>3, HeldApart
    <3> QED  BY <3>1, <3>4
  <2>2. CASE ProviderReturn(Here)
    <3>1. SignInIInv'
      BY <1>1, <2>2, TripFacts, SendSound
    <3>2. PICK d \in BOOLEAN :
            trip' = [trip EXCEPT ![Here] = [trip[Here] EXCEPT !.at = "asked", !.sent = jar,
                                                              !.denied = d]]
      BY <2>2 DEF ProviderReturn
    <3> DEFINE r == [trip[Here] EXCEPT !.at = "asked", !.sent = jar, !.denied = d]
    <3>3. r.at = "asked" /\ r.sent = jar /\ r.id = trip[Here].id /\ r.answer = trip[Here].answer
      BY TripFacts DEF Trips
    <3>4. trip'[Here] = r /\ jar' = jar /\ trip[Here].at = "abroad"
      BY <2>2, <3>2, TripFacts DEF ProviderReturn, SignInIInv
    <3>5. trip[Here].answer = "none" /\ page = "abroad"
      BY <3>4, TripFacts DEF BrowserIInv, Held, Trips
    <3>6. Held'
      BY <1>1, <3>3, <3>4, <3>5 DEF BrowserIInv, Held
    <3> QED  BY <3>1, <3>6
  <2>3. CASE CallbackServed(Here)
    <3>1. SignInIInv'
      BY <1>1, <2>3, TripFacts, ServedSound
    <3>2. PICK a \in Verdicts \cup {"lost"} :
            /\ trip' = [trip EXCEPT ![Here] = [trip[Here] EXCEPT !.at = "answered", !.answer = a]]
            /\ a # "lost" => Finds(trip[Here], a)
      BY <2>3 DEF CallbackServed
    <3> DEFINE r == [trip[Here] EXCEPT !.at = "answered", !.answer = a]
    <3>3. r.at = "answered" /\ r.sent = trip[Here].sent /\ r.id = trip[Here].id /\ r.answer = a
      BY TripFacts DEF Trips
    <3>4. trip'[Here] = r /\ jar' = jar /\ trip[Here].at = "asked"
      BY <2>3, <3>2, TripFacts DEF CallbackServed, SignInIInv
    <3>5. page = "abroad"
      BY <3>4 DEF BrowserIInv, Held
    <3>6. a = "in" => trip[Here].sent.ret = returnTo
      BY <3>2, <3>5 DEF Finds, Exchanges, Matches, BrowserIInv, Held
    <3>7. Held'
      BY <1>1, <3>3, <3>4, <3>5, <3>6 DEF BrowserIInv, Held
    <3> QED  BY <3>1, <3>7
  <2>4. CASE CookieExpires
    <3>1. SignInIInv' /\ trip'[Here].at = trip[Here].at
      BY <1>1, <2>4, TripFacts, ExpiresSound
    <3> DEFINE old == [jar EXCEPT !.id = 0]
    <3>2. PICK c : c = IF trip[Here].sent = jar THEN old ELSE trip[Here].sent
      OBVIOUS
    <3> DEFINE r == [trip[Here] EXCEPT !.alone = FALSE, !.sent = c]
    <3>3. trip'[Here] = r /\ jar' = NoState /\ jar # NoState
      BY <2>4, <3>2, TripFacts DEF CookieExpires
    <3>4. r.at = trip[Here].at /\ r.sent = c /\ r.id = trip[Here].id /\ r.answer = trip[Here].answer
      BY TripFacts DEF Trips
    <3>5. old.id = 0 /\ old.ret = jar.ret
      <4>1. jar \in [id : 0..clicks, ret : Places]
        BY <3>3, TripFacts DEF SignInIInv, Issued
      <4> QED  BY <4>1
    <3> HIDE DEF old, r
    <3>6. c = trip[Here].sent \/ (c.id = 0 /\ c.ret = trip[Here].sent.ret)
      BY <3>2, <3>5
    <3>7. page = "abroad" => trip[Here].id # 0
      BY TripFacts
    <3>8. Held'
      BY <1>1, <3>3, <3>4, <3>6, <3>7 DEF BrowserIInv, Held
    <3> QED  BY <3>1, <3>8
  <2> QED  BY <2>1, <2>2, <2>3, <2>4 DEF SignInStep
<1> QED  BY <1>1, <1>2, <1>3 DEF BrowserIInv

-----------------------------------------------------------------------------
LEMMA BrowserStep ==
    ASSUME BrowserAssumption, SignInAssumption, BrowserIInv, [BrowserNext]_vars
    PROVE  BrowserIInv'
<1>1. CASE Served \/ Answered
  BY <1>1, QueriesKeep, FormKeeps, ButtonsKeep DEF Served, Answered
<1>2. CASE Redirect
  BY <1>2, RedirectsKeep
<1>3. CASE User
  BY <1>3, FormKeeps, ButtonsKeep, OutsideKeeps, LeavesToSignIn, StaysAbroad DEF User
<1>4. CASE SigningIn
  BY <1>4, SignInGoesOn, ComesBack, OthersSignIn DEF SigningIn
<1>5. CASE Elsewhere
  BY <1>5, OutsideKeeps
<1>6. CASE UNCHANGED vars
  <2>1. ClientIInv' /\ UNCHANGED <<signInVars, page, returnTo, clicks>>
    BY <1>6 DEF vars, serverVars, formVars, BrowserIInv, ClientIInv, ClientTypeOK, Away, Dialled,
       Known, Remembered, QuietButtons
  <2> QED  BY <2>1, PlainStep
<1> QED  BY <1>1, <1>2, <1>3, <1>4, <1>5, <1>6 DEF BrowserNext

LEMMA BrowserInvariant == BrowserSpec => []BrowserIInv
<1> USE BrowserAssumption, SignInAssumption
<1>1. BrowserInit => BrowserIInv
  <2> SUFFICES ASSUME BrowserInit PROVE BrowserIInv
    OBVIOUS
  <2>1. /\ NoTrip \in Trips /\ NoTrip.at = "home" /\ NoTrip.sent = NoState
        /\ NoTrip.answer = "none" /\ NoTrip.alone = FALSE
    BY DEF NoTrip, Trips
  <2>2. trip \in [Tabs -> Trips] /\ \A t \in Tabs : trip[t] = NoTrip
    BY <2>1 DEF BrowserInit, SignInInit
  <2>3. SignInIInv
    <3>1. \A t \in Tabs : Sound(trip[t])
      BY <2>1, <2>2 DEF Sound, Uncrossed, Issued
    <3>2. jar = NoState /\ spent = {}
      BY DEF BrowserInit, SignInInit
    <3> QED  BY <2>1, <2>2, <3>1, <3>2 DEF SignInIInv, Issued
  <2>4. /\ me \in Query /\ status = NoQuery /\ status \in Query
        /\ NoQuery.data = "none" /\ NoQuery.fetch = "idle"
    BY QueryTypes DEF BrowserInit
  <2>5. click = QuietButtons /\ click.connect = "idle"
        /\ click \in [Buttons -> {"idle", "asked", "ok", "failed"}]
    BY DEF BrowserInit, QuietButtons, Buttons
  <2>6. /\ session \in BOOLEAN /\ linked \in BOOLEAN /\ since = linked /\ (linked => session)
        /\ page \in {"landing", "connect", "files"} /\ returnTo = "connect"
        /\ form = NoTarget /\ recent = NoTarget /\ dial = NoDial
        /\ reached = {} /\ edited = FALSE /\ clicks = 0
    BY DEF BrowserInit
  <2>7. ClientTypeOK
    <3>1. returnTo \in Places /\ clicks \in 0..MaxClicks
      BY <2>6 DEF BrowserAssumption, Guarded
    <3>2. since \in BOOLEAN
      BY <2>6
    <3> QED  BY <2>4, <2>5, <2>6, <3>1, <3>2 DEF ClientTypeOK
  <2>8. Away /\ Dialled /\ Known
    BY <2>4, <2>5, <2>6, NoDialType DEF Away, Dialled, Known, Remembered
  <2>9. Held
    BY <2>1, <2>2, <2>6 DEF Held, BrowserAssumption
  <2> QED  BY <2>3, <2>7, <2>8, <2>9 DEF BrowserIInv, ClientIInv
<1>2. BrowserIInv /\ [BrowserNext]_vars => BrowserIInv'
  BY BrowserStep
<1> QED  BY <1>1, <1>2, PTL DEF BrowserSpec

\* The types of the client and of the logins, and that a tab is on its way exactly
\* while it has no page, for any number of tabs, targets and clicks.
THEOREM BrowserTypeCorrect == BrowserSpec => []BrowserTypeOK
<1>1. BrowserIInv => BrowserTypeOK
  <2> SUFFICES ASSUME BrowserIInv PROVE BrowserTypeOK
    OBVIOUS
  <2>1. SignInTypeOK
    <3>1. SignInIInv /\ clicks \in Nat
      BY TripFacts, BrowserAssumption
    <3>2. jar \in Cookies \cup {NoState} /\ spent \subseteq Nat
      BY <3>1 DEF SignInIInv, Issued, Cookies
    <3> QED  BY <3>1, <3>2 DEF SignInTypeOK, SignInIInv
  <2> QED  BY <2>1 DEF BrowserTypeOK, BrowserIInv, ClientIInv, ClientTypeOK, Known, Held
<1> QED  BY <1>1, BrowserInvariant, PTL

\* A login that nothing has crossed is turned away by the provider only, for any
\* number of tabs and of logins before it (oidc.go:78-131).
THEOREM UncrossedKeepsState == BrowserSpec => []TurnedAwayAbroad
<1>1. BrowserIInv => TurnedAwayAbroad
  BY DEF BrowserIInv, SignInIInv, Sound, Uncrossed, TurnedAwayAbroad
<1> QED  BY <1>1, BrowserInvariant, PTL

\* The remembered target is one that was reached, unless the form was edited during
\* a connect (Connect.tsx:46-61).
THEOREM RemembersReached == BrowserSpec => []Remembered
<1>1. BrowserIInv => Remembered
  BY DEF BrowserIInv, ClientIInv, Dialled
<1> QED  BY <1>1, BrowserInvariant, PTL

\* Which steps go from a page to another one.
LEMMA PageSteps ==
    ASSUME BrowserIInv, [BrowserNext]_vars, page' # page
    PROVE  /\ page = "abroad" /\ page' \in Guarded => page' = returnTo
           /\ page = "connect" /\ page' = "files" /\ click' = click => since
<1> USE BrowserAssumption, SignInAssumption DEF serverVars, formVars
<1>0. /\ ClientIInv /\ Away /\ Known /\ click \in [Buttons -> {"idle", "asked", "ok", "failed"}]
      /\ page = "abroad" => \A b \in Buttons : click[b] = "idle"
  BY DEF BrowserIInv, ClientIInv, ClientTypeOK, Away, QuietButtons
<1>1. CASE Redirect
  <2>1. page # "abroad"
    BY <1>1 DEF Redirect, TurnAway, Welcome, ToFiles, ToConnect, Shown, Guarded
  <2>2. page = "connect" /\ page' = "files" => ToFiles
    <3>1. TurnAway => page' = "landing"
      BY DEF TurnAway, Go, Stay, Enter
    <3>2. Welcome => page = "landing"
      BY DEF Welcome, Shown
    <3>3. ToConnect => page = "files"
      BY DEF ToConnect, Shown
    <3> QED  BY <1>1, <3>1, <3>2, <3>3 DEF Redirect
  <2>3. ToFiles => status.data = "yes"
    BY DEF ToFiles
  <2> QED  BY <1>0, <2>1, <2>2, <2>3 DEF Known
<1>2. CASE ConnectAnswered \/ DisconnectAnswered \/ LogoutAnswered
  <2>1. /\ click' # click
        /\ \E b \in Buttons : click[b] # "idle"
    <3>1. \A b \in Buttons : [click EXCEPT ![b] = "idle"][b] = "idle"
      BY <1>0
    <3>2. CASE ConnectAnswered
      BY <3>1, <3>2 DEF ConnectAnswered, Buttons
    <3>3. CASE DisconnectAnswered
      BY <3>1, <3>3 DEF DisconnectAnswered, Buttons
    <3>4. CASE LogoutAnswered
      BY <1>0, <3>1, <3>4 DEF LogoutAnswered, Load, Buttons
    <3> QED  BY <1>2, <3>2, <3>3, <3>4
  <2> QED  BY <1>0, <2>1
<1>3. CASE Arrive
  <2>1. page = "abroad"
    BY <1>3 DEF Arrive, CallbackAnswered, BrowserIInv, Held
  <2> QED  BY <1>3, <2>1, ComesBack DEF Guarded
<1>4. CASE SignInClick
  BY <1>4 DEF SignInClick, Load, Guarded
<1>5. CASE GoHome \/ TryAgain
  BY <1>5, StaysAbroad DEF Guarded
<1>6. CASE Reload
  BY <1>6 DEF Reload, Load
<1>7. CASE MeDelivered
  BY <1>7 DEF MeDelivered, Enter, Stay
<1>8. CASE \/ MeServed \/ StatusServed \/ ConnectServed \/ DisconnectServed \/ LogoutServed
           \/ StatusDelivered \/ (\E t \in Targets : Edit(t)) \/ ConnectClick
           \/ DisconnectClick \/ LogoutClick \/ Elsewhere \/ UNCHANGED vars
  BY <1>8 DEF MeServed, StatusServed, ConnectServed, DisconnectServed, LogoutServed,
     StatusDelivered, Edit, ConnectClick, DisconnectClick, LogoutClick, Click, Elsewhere, vars
<1>9. CASE SignInStep \/ SignInElsewhere \/ \E t \in Tabs \ {Here} : ArriveElsewhere(t)
  BY <1>9, SignInGoesOn, OthersSignIn
<1> QED
  BY <1>1, <1>2, <1>3, <1>4, <1>5, <1>6, <1>7, <1>8, <1>9
     DEF BrowserNext, Served, Answered, User, SigningIn

\* A tab comes back from the provider to the page that sent it there, whatever the
\* other tabs did to the cookie (oidc.go:58-131, Landing.tsx:14-59).
THEOREM LandsWhereItWasAsked == BrowserSpec => LandsWhereAsked
<1>1. BrowserIInv /\ [BrowserNext]_vars =>
        [page = "abroad" /\ page' \in Guarded => page' = returnTo]_vars
  BY PageSteps DEF Guarded
<1> QED  BY <1>1, BrowserInvariant, PTL DEF BrowserSpec, LandsWhereAsked

\* No answer from before a disconnect brings the files back (Files.tsx:155-159).
THEOREM NothingReturns == BrowserSpec => NoReturn
<1>1. BrowserIInv /\ [BrowserNext]_vars =>
        [page = "connect" /\ page' = "files" /\ click' = click => since]_vars
  BY PageSteps
<1> QED  BY <1>1, BrowserInvariant, PTL DEF BrowserSpec, NoReturn
=============================================================================
