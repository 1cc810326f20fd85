------------------------------- MODULE Session -------------------------------
(****************************************************************************)
(* The console's session (apps/web): one browser, whose tabs share a cookie *)
(* jar, and an identity provider.  The server keeps nothing: each request   *)
(* carries the cookies the jar held when it was sent, and what the response *)
(* sets or deletes takes effect when it arrives, in any order.              *)
(*                                                                          *)
(* Middleware refreshes an access token that is about to expire.  The       *)
(* session cookie outlives the provider's session, so its own expiry is     *)
(* left out.  `rotates` is whether the provider takes a refresh token once. *)
(* MaxTime, MaxSignIns, MaxSignOuts and MaxIdpFaults are bounds.            *)
(****************************************************************************)
EXTENDS Naturals, Sequences

CONSTANTS
  Tabs,
  Users,
  Life,       \* accessTokenLifespan
  Skew,       \* REFRESH_SKEW_SECONDS
  MaxTime, MaxSignIns, MaxSignOuts, MaxIdpFaults

ASSUME SessionAssumption ==
  /\ {Life, Skew, MaxTime, MaxSignIns, MaxSignOuts, MaxIdpFaults} \subseteq Nat
  /\ Skew < Life

NoCookie == [user |-> "nobody", sid |-> 0, exp |-> 0, refresh |-> 0]

VARIABLES
  time,
  jar,       \* the cookies ff_session and ff_auth_flow, which is a number
  tab,       \* tab[t]: the request a tab waits for
  flows,     \* sign-ins started
  idp,       \* sessions it has opened, their users, those alive, last refresh
             \* token of each, and the one its own cookie in the browser names
  rotates,
  idpFaults,
  outs,      \* signs-out so far
  signedIn,  \* history: the session the last sign-in made, NoCookie since a sign-out
  epoch,     \* history: sign-ins and signs-out that have arrived
  crossed,   \* history: whether an answer to a request sent before the last of
             \* these has touched the session cookie since
  strained   \* history: a refresh met a fault, or a token used before

sessionVars == <<time, jar, tab, flows, idp, rotates, idpFaults, outs, signedIn, epoch, crossed, strained>>

\* A tab: what it waits for, the session its request carried, the epoch it was
\* sent in; and of a response, what it sets ff_session to, if it does.
Quiet == [pc |-> "quiet", carried |-> NoCookie, sent |-> 0, sets |-> <<>>]

SessionInit ==
  /\ time = 0
  /\ jar = [session |-> NoCookie, flow |-> 0]
  /\ tab = [t \in Tabs |-> Quiet]
  /\ flows = 0
  /\ idp = [users |-> <<>>, alive |-> {}, last |-> <<>>, own |-> 0]
  /\ rotates \in BOOLEAN
  /\ idpFaults = 0
  /\ outs = 0
  /\ signedIn = NoCookie
  /\ epoch = 0
  /\ crossed = FALSE
  /\ strained = FALSE

TimePasses ==
  /\ time < MaxTime
  /\ time' = time + 1
  /\ UNCHANGED <<jar, tab, flows, idp, rotates, idpFaults, outs, signedIn, epoch, crossed, strained>>

\* The answer on its way to tab t: the session it sets, or NoCookie to delete it.
Answered(t, pc, session) == [tab EXCEPT ![t].pc = pc, ![t].sets = <<session>>]

NeedsRefresh(session) == session.exp - Skew <= time

-----------------------------------------------------------------------------
(* Middleware.                                                              *)

\* Defect for a mutation run: a token about to expire ends the session.
VisitNoRefresh(t) ==
  /\ tab[t].pc = "quiet"
  /\ jar.session # NoCookie /\ NeedsRefresh(jar.session)
  /\ tab' = [tab EXCEPT ![t] = [Quiet EXCEPT !.pc = "page", !.sent = epoch, !.sets = <<NoCookie>>]]
  /\ UNCHANGED <<time, jar, flows, idp, rotates, idpFaults, outs, signedIn, epoch, crossed, strained>>

\* A request whose access token is not good enough waits for another; one with a
\* good token, or without a session, changes nothing.
Visit(t) ==
  /\ tab[t].pc = "quiet"
  /\ jar.session # NoCookie /\ NeedsRefresh(jar.session)
  /\ tab' = [tab EXCEPT ![t] = [Quiet EXCEPT !.pc = "refresh", !.carried = jar.session, !.sent = epoch]]
  /\ UNCHANGED <<time, jar, flows, idp, rotates, idpFaults, outs, signedIn, epoch, crossed, strained>>

\* What the provider's token endpoint takes.
Accepts(session) ==
  /\ session.sid \in idp.alive
  /\ rotates => session.refresh = idp.last[session.sid]

\* The session goes on with new tokens.
Refreshed(t) ==
  /\ tab[t].pc = "refresh" /\ Accepts(tab[t].carried)
  /\ LET s == tab[t].carried IN
     /\ idp' = [idp EXCEPT !.last[s.sid] = @ + 1]
     /\ tab' = Answered(t, "page", [s EXCEPT !.exp = time + Life, !.refresh = idp.last[s.sid] + 1])
  /\ UNCHANGED <<time, jar, flows, rotates, idpFaults, outs, signedIn, epoch, crossed, strained>>

\* Whatever is wrong with the refresh, the cookie is deleted.
RefreshRefused(t) ==
  /\ tab[t].pc = "refresh" /\ ~Accepts(tab[t].carried)
  /\ tab' = Answered(t, "page", NoCookie)
  /\ strained' = (strained \/ tab[t].carried.sid \in idp.alive)
  /\ UNCHANGED <<time, jar, flows, idp, rotates, idpFaults, outs, signedIn, epoch, crossed>>

\* The provider is out of reach, or the sealed session too large for a cookie.
RefreshFails(t) ==
  /\ tab[t].pc = "refresh" /\ idpFaults < MaxIdpFaults
  /\ idpFaults' = idpFaults + 1
  /\ tab' = Answered(t, "page", NoCookie)
  /\ strained' = TRUE
  /\ UNCHANGED <<time, jar, flows, idp, rotates, outs, signedIn, epoch, crossed>>

\* The page arrives, and with it the cookie.
PageArrives(t) ==
  /\ tab[t].pc = "page"
  /\ jar' = [jar EXCEPT !.session = tab[t].sets[1]]
  /\ tab' = [tab EXCEPT ![t] = Quiet]
  /\ crossed' = (crossed \/ tab[t].sent # epoch)
  /\ UNCHANGED <<time, flows, idp, rotates, idpFaults, outs, signedIn, epoch, strained>>

-----------------------------------------------------------------------------
(* Signing in and out.                                                      *)

\* api/auth/login: a state of its own, in the one flow cookie.
StartSignIn(t) ==
  /\ tab[t].pc = "quiet" /\ flows < MaxSignIns
  /\ flows' = flows + 1
  /\ jar' = [jar EXCEPT !.flow = flows + 1]
  /\ tab' = [tab EXCEPT ![t] = [Quiet EXCEPT !.pc = "away", !.sent = flows + 1]]
  /\ UNCHANGED <<time, idp, rotates, idpFaults, outs, signedIn, epoch, crossed, strained>>

\* The provider's session for this browser, or a new one for user u.
Opened(u) ==
  IF idp.own \in idp.alive THEN idp
  ELSE LET sid == Len(idp.users) + 1 IN
       [users |-> Append(idp.users, u), alive |-> idp.alive \cup {sid},
        last |-> Append(idp.last, 0), own |-> sid]

\* api/auth/callback with the state the tab left with.
Callback(t, u) ==
  /\ tab[t].pc = "away" /\ jar.flow = tab[t].sent
  /\ idp' = [Opened(u) EXCEPT !.last[Opened(u).own] = @ + 1]
  /\ LET made == [user |-> idp'.users[idp'.own], sid |-> idp'.own, exp |-> time + Life,
                  refresh |-> idp'.last[idp'.own]]
     IN tab' = Answered(t, "signed in", made)
  /\ UNCHANGED <<time, jar, flows, rotates, idpFaults, outs, signedIn, epoch, crossed, strained>>

\* Another sign-in of this browser has taken the flow cookie, or ended it; or the
\* exchange, the tenant claim or the tenant lookup fails.
CallbackFails(t) ==
  /\ tab[t].pc = "away"
  /\ \/ jar.flow # tab[t].sent /\ UNCHANGED idpFaults
     \/ jar.flow = tab[t].sent /\ idpFaults < MaxIdpFaults /\ idpFaults' = idpFaults + 1
  /\ jar' = [jar EXCEPT !.flow = 0]
  /\ tab' = [tab EXCEPT ![t] = Quiet]
  /\ UNCHANGED <<time, flows, idp, rotates, outs, signedIn, epoch, crossed, strained>>

SignInArrives(t) ==
  /\ tab[t].pc = "signed in"
  /\ jar' = [session |-> tab[t].sets[1], flow |-> 0]
  /\ signedIn' = tab[t].sets[1]
  /\ epoch' = epoch + 1
  /\ crossed' = FALSE
  /\ strained' = FALSE
  /\ tab' = [tab EXCEPT ![t] = Quiet]
  /\ UNCHANGED <<time, flows, idp, rotates, idpFaults, outs>>

\* api/auth/logout: the cookie goes, and the browser is sent on to the provider.
SignOut(t) ==
  /\ tab[t].pc = "quiet" /\ outs < MaxSignOuts
  /\ outs' = outs + 1
  /\ jar' = [jar EXCEPT !.session = NoCookie]
  /\ signedIn' = NoCookie
  /\ epoch' = epoch + 1
  /\ crossed' = FALSE
  /\ UNCHANGED <<time, tab, flows, idp, rotates, idpFaults, strained>>

\* The provider ends its session: signed out there, idle too long, or by an admin.
IdpEnds(sid) ==
  /\ sid \in idp.alive
  /\ idp' = [idp EXCEPT !.alive = @ \ {sid}]
  /\ UNCHANGED <<time, jar, tab, flows, rotates, idpFaults, outs, signedIn, epoch, crossed, strained>>

SessionNext ==
  \/ TimePasses
  \/ \E t \in Tabs :
       \/ Visit(t) \/ Refreshed(t) \/ RefreshRefused(t) \/ RefreshFails(t) \/ PageArrives(t)
       \/ StartSignIn(t) \/ (\E u \in Users : Callback(t, u)) \/ CallbackFails(t)
       \/ SignInArrives(t) \/ SignOut(t)
  \/ \E sid \in idp.alive : IdpEnds(sid)

SessionSpec == SessionInit /\ [][SessionNext]_sessionVars

-----------------------------------------------------------------------------
(* Properties.                                                              *)

\* Between a sign-in and a sign-out, and as long as no answer to an older request
\* arrives late, the jar holds the session of who signed in last, whichever tabs
\* refreshed it meanwhile; and it holds it until the provider ends it, unless a
\* refresh failed or two of them used one token that may be used once.
SessionIsWhoSignedIn ==
  ~crossed =>
    /\ jar.session # NoCookie => jar.session.sid = signedIn.sid
    /\ jar.session = NoCookie => signedIn.sid \notin idp.alive \/ strained
=============================================================================
