------------------------------ MODULE DeskProofs ------------------------------
(***************************************************************************)
(* Proofs about what people do at a desk: customs entries, the console's   *)
(* session, documents under review, and the books of the seeded console;   *)
(* for any number of calls, lines, tabs, users, reviewers and faults, and  *)
(* any cards, rules, tariffs and requests a seeded book may hold.          *)
(*                                                                         *)
(* StatusIsLastEvent is not inductive: it does not say that the event a    *)
(* transaction is about to commit sorts after every committed one.  It     *)
(* does because whoever has stamped an event holds the row lock            *)
(* (LockSound), so nobody else has stamped one since (StampSound).         *)
(* SessionIsWhoSignedIn needs what the answers on their way would put into *)
(* the jar (TabSound), and DocumentSettled what a review under way may     *)
(* still rely on (OneReview).  ConsoleBooks needs that a charge carries    *)
(* the trigger the journey charges it by and that wherever there is a      *)
(* charge one of the same invoice costs something (ChargesSound), and that *)
(* the clearance is accrued with its duty (ClearedSound).                  *)
(***************************************************************************)
EXTENDS CustomsEntries, Session, Documents, Console, Sums, SequenceTheorems, TLAPS

-----------------------------------------------------------------------------
(* The console's session.                                                  *)

IsCookie(s) == s = [user |-> s.user, sid |-> s.sid, exp |-> s.exp, refresh |-> s.refresh]

\* No cookie, or one the provider made.
Known(s) == IsCookie(s) /\ (s = NoCookie \/ s.sid \in 1 .. Len(idp.users))

\* Of the session that signed in last, if it is one; and gone only if that has ended,
\* or a refresh was strained.
Holds(s) ==
  /\ s # NoCookie => s.sid = signedIn.sid
  /\ s = NoCookie => signedIn.sid \notin idp.alive \/ strained

SessionShape ==
  /\ jar = [session |-> jar.session, flow |-> jar.flow]
  /\ idp = [users |-> idp.users, alive |-> idp.alive, last |-> idp.last, own |-> idp.own]
  /\ idp.users \in Seq(Users) /\ idp.alive \subseteq 1 .. Len(idp.users)
  /\ tab = [t \in Tabs |-> tab[t]]
  /\ epoch \in Nat

IsTab(r) == r = [pc |-> r.pc, carried |-> r.carried, sent |-> r.sent, sets |-> r.sets]

\* A request sent since the last sign-in or sign-out carries its session, unless an
\* older answer came between; and so does the answer on its way.
TabSound(t) ==
  /\ IsTab(tab[t])
  /\ tab[t].pc = "refresh" =>
       /\ Known(tab[t].carried) /\ tab[t].carried # NoCookie
       /\ tab[t].sent \in Nat /\ tab[t].sent <= epoch
       /\ ~crossed /\ tab[t].sent = epoch => tab[t].carried.sid = signedIn.sid
  /\ tab[t].pc = "page" =>
       /\ Known(tab[t].sets[1])
       /\ tab[t].sent \in Nat /\ tab[t].sent <= epoch
       /\ ~crossed /\ tab[t].sent = epoch => Holds(tab[t].sets[1])
  /\ tab[t].pc = "signed in" => Known(tab[t].sets[1]) /\ tab[t].sets[1] # NoCookie

SessionInv ==
  /\ SessionShape
  /\ SessionIsWhoSignedIn
  /\ Known(jar.session) /\ Known(signedIn)
  /\ \A t \in Tabs : TabSound(t)

LEMMA NoCookieFacts == IsCookie(NoCookie) /\ NoCookie.sid = 0 /\ \A n \in Nat : 0 \notin 1 .. n
BY DEF IsCookie, NoCookie

\* The provider keeps its sessions, and brings none back.
IdpGrew ==
  /\ Len(idp.users) \in Nat /\ Len(idp.users') \in Nat /\ Len(idp.users) <= Len(idp.users')
  /\ \A n \in 0 .. Len(idp.users) : n \in idp.alive' => n \in idp.alive

LEMMA KnownKept ==
  ASSUME IdpGrew
  PROVE  \A s : Known(s) => Known(s)'
BY DEF IdpGrew, Known, IsCookie

LEMMA SameIdp ==
  ASSUME SessionInv, idp' = idp
  PROVE  IdpGrew
BY DEF SessionInv, SessionShape, IdpGrew

LEMMA HoldsKept ==
  ASSUME SessionInv, IdpGrew, signedIn' = signedIn, strained => strained'
  PROVE  \A s : Holds(s) => Holds(s)'
<1>1. signedIn.sid \in 0 .. Len(idp.users)
  <2>1. Known(signedIn) /\ Len(idp.users) \in Nat
    BY DEF SessionInv, IdpGrew
  <2> QED BY <2>1, NoCookieFacts DEF Known
<1> QED BY <1>1 DEF Holds, IdpGrew

\* A tab that waits for the same as before, while nobody signs in or out.
LEMMA TabKept ==
  ASSUME SessionInv, IdpGrew, signedIn' = signedIn, strained => strained',
         epoch' = epoch, crossed => crossed',
         NEW t \in Tabs, tab'[t] = tab[t]
  PROVE  TabSound(t)'
<1>1. TabSound(t)
  BY DEF SessionInv
<1>2. /\ \A s : Known(s) => Known(s)'
      /\ \A s : Holds(s) => Holds(s)'
  BY KnownKept, HoldsKept
<1>3. CASE tab[t].pc = "refresh"
  BY <1>1, <1>2, <1>3 DEF TabSound
<1>4. CASE tab[t].pc = "page"
  BY <1>1, <1>2, <1>4 DEF TabSound
<1>5. CASE tab[t].pc = "signed in"
  BY <1>1, <1>2, <1>5 DEF TabSound
<1>6. CASE tab[t].pc \notin {"refresh", "page", "signed in"}
  BY <1>1, <1>6 DEF TabSound
<1> QED BY <1>3, <1>4, <1>5, <1>6

\* A tab that waits for nothing it could bring back to the jar.
LEMMA TabAway ==
  ASSUME NEW t \in Tabs, IsTab(tab'[t]), tab'[t].pc \notin {"refresh", "page", "signed in"}
  PROVE  TabSound(t)'
BY DEF TabSound, IsTab

\* One tab has another state; nobody signs in or out, and the jar's session stays.
LEMMA OneTab ==
  ASSUME SessionInv, IdpGrew, SessionShape', jar'.session = jar.session,
         UNCHANGED <<signedIn, epoch, crossed>>, strained => strained',
         NEW t \in Tabs, \A u \in Tabs : u # t => tab'[u] = tab[u], TabSound(t)'
  PROVE  SessionInv'
<1>1. \A u \in Tabs : TabSound(u)'
  <2> SUFFICES ASSUME NEW u \in Tabs, u # t PROVE TabSound(u)'
    OBVIOUS
  <2> QED BY TabKept
<1>2. Known(jar.session)' /\ Known(signedIn)'
  BY KnownKept DEF SessionInv, Known, IsCookie
<1>3. SessionIsWhoSignedIn'
  <2>1. ~crossed => Holds(jar.session)
    BY DEF SessionInv, SessionIsWhoSignedIn, Holds
  <2>2. ~crossed => Holds(jar.session)'
    BY <2>1, HoldsKept DEF Holds
  <2> QED BY <2>2 DEF SessionIsWhoSignedIn, Holds
<1> QED BY <1>1, <1>2, <1>3 DEF SessionInv

\* What a response puts into a tab.
GetsAnswer(t, step, s) ==
  /\ tab' = [u \in Tabs |-> tab'[u]] /\ IsTab(tab'[t])
  /\ tab'[t].pc = step /\ tab'[t].sets[1] = s /\ tab'[t].sent = tab[t].sent
  /\ \A u \in Tabs : u # t => tab'[u] = tab[u]

LEMMA AnsweredTab ==
  ASSUME SessionInv, NEW t \in Tabs, NEW step, NEW s, tab' = Answered(t, step, s)
  PROVE  GetsAnswer(t, step, s)
<1>1. tab = [u \in Tabs |-> tab[u]] /\ IsTab(tab[t])
  BY DEF SessionInv, SessionShape, TabSound
<1> PICK r : r = [pc |-> step, carried |-> tab[t].carried, sent |-> tab[t].sent, sets |-> <<s>>]
  OBVIOUS
<1>2. tab' = [u \in Tabs |-> IF u = t THEN r ELSE tab[u]]
  <2> PICK old : old = tab[t]
    OBVIOUS
  <2> PICK mid : mid = [tab EXCEPT ![t].pc = step]
    OBVIOUS
  <2>1. tab' = [mid EXCEPT ![t].sets = <<s>>]
    BY Zenon DEF Answered
  <2>2. old = [pc |-> old.pc, carried |-> old.carried, sent |-> old.sent, sets |-> old.sets]
    BY <1>1 DEF IsTab
  <2>3. mid = [u \in Tabs |-> IF u = t THEN [old EXCEPT !.pc = step] ELSE tab[u]]
    BY <1>1
  <2>4. [[old EXCEPT !.pc = step] EXCEPT !.sets = <<s>>] = r
    <3> PICK half : half = [old EXCEPT !.pc = step]
      OBVIOUS
    <3>1. half = [pc |-> step, carried |-> old.carried, sent |-> old.sent, sets |-> old.sets]
      BY <2>2
    <3>2. [half EXCEPT !.sets = <<s>>]
            = [pc |-> step, carried |-> old.carried, sent |-> old.sent, sets |-> <<s>>]
      BY ONLY <3>1
    <3> QED BY <3>2
  <2> QED BY <2>1, <2>3, <2>4
<1>3. tab'[t] = r /\ \A u \in Tabs : u # t => tab'[u] = tab[u]
  BY <1>2
<1>4. IsTab(r) /\ r.sets[1] = s
  BY DEF IsTab
<1> QED BY <1>2, <1>3, <1>4 DEF GetsAnswer

LEMMA QuietTab ==
  ASSUME SessionInv, NEW t \in Tabs, NEW r, IsTab(r), tab' = [tab EXCEPT ![t] = r]
  PROVE  /\ tab' = [u \in Tabs |-> tab'[u]] /\ IsTab(tab'[t]) /\ tab'[t] = r
         /\ \A u \in Tabs : u # t => tab'[u] = tab[u]
BY DEF SessionInv, SessionShape

LEMMA SessionStepInv ==
  ASSUME SessionInv, [SessionNext]_sessionVars
  PROVE  SessionInv'
<1>s. /\ SessionShape /\ epoch \in Nat /\ Len(idp.users) \in Nat
      /\ Known(jar.session) /\ Known(signedIn) /\ \A t \in Tabs : TabSound(t)
      /\ (~crossed => Holds(jar.session))
  BY DEF SessionInv, SessionShape, SessionIsWhoSignedIn, Holds
<1>q. IsTab(Quiet) /\ Quiet.pc = "quiet"
  BY DEF IsTab, Quiet
<1>1. CASE TimePasses \/ UNCHANGED sessionVars
  <2>1. UNCHANGED <<jar, tab, idp, signedIn, epoch, crossed, strained>>
    BY <1>1 DEF TimePasses, sessionVars
  <2>2. IdpGrew
    BY <2>1, SameIdp
  <2>3. SessionShape' /\ SessionIsWhoSignedIn' /\ Known(jar.session)' /\ Known(signedIn)'
    BY <1>s, <2>1 DEF SessionInv, SessionShape, SessionIsWhoSignedIn, Known, IsCookie
  <2>4. \A t \in Tabs : TabSound(t)'
    BY <2>1, <2>2, TabKept
  <2> QED BY <2>3, <2>4 DEF SessionInv
<1>2. ASSUME NEW t \in Tabs, Visit(t) PROVE SessionInv'
  <2> PICK r : r = [Quiet EXCEPT !.pc = "refresh", !.carried = jar.session, !.sent = epoch]
    OBVIOUS
  <2>1. /\ jar.session # NoCookie /\ tab' = [tab EXCEPT ![t] = r]
        /\ UNCHANGED <<jar, idp, signedIn, epoch, crossed, strained>>
    BY <1>2 DEF Visit
  <2>2. IsTab(r) /\ r.pc = "refresh" /\ r.carried = jar.session /\ r.sent = epoch
    <3>1. r = [pc |-> "refresh", carried |-> jar.session, sent |-> epoch, sets |-> <<>>]
      BY DEF Quiet
    <3> QED BY ONLY <3>1 DEF IsTab
  <2>3. /\ tab' = [u \in Tabs |-> tab'[u]] /\ tab'[t] = r
        /\ \A u \in Tabs : u # t => tab'[u] = tab[u]
    BY <2>1, <2>2, QuietTab
  <2>4. SessionShape' /\ IdpGrew
    BY <1>s, <2>1, <2>3, SameIdp DEF SessionShape
  <2>5. TabSound(t)'
    <3>1. Known(tab[t].carried)'
      <4>1. \A s : Known(s) => Known(s)'
        BY <2>4, KnownKept
      <4>2. Known(jar.session) /\ tab'[t].carried = jar.session
        BY <1>s, <2>2, <2>3
      <4> QED BY <4>1, <4>2 DEF Known
    <3>2. ~crossed => jar.session.sid = signedIn.sid
      BY <1>s, <2>1 DEF Holds
    <3>3. /\ IsTab(tab'[t]) /\ tab'[t].pc = "refresh" /\ tab'[t].carried = jar.session
          /\ tab'[t].sent = epoch /\ epoch' = epoch /\ epoch \in Nat
          /\ signedIn' = signedIn /\ crossed' = crossed /\ jar.session # NoCookie
      BY <1>s, <2>1, <2>2, <2>3
    <3> QED BY <3>1, <3>2, <3>3 DEF TabSound
  <2> QED BY <2>1, <2>3, <2>4, <2>5, OneTab
<1>3. ASSUME NEW t \in Tabs, Refreshed(t) PROVE SessionInv'
  <2> PICK s : s = tab[t].carried
    OBVIOUS
  <2> PICK made : made = [s EXCEPT !.exp = time + Life, !.refresh = idp.last[s.sid] + 1]
    OBVIOUS
  <2>1. /\ tab[t].pc = "refresh" /\ tab' = Answered(t, "page", made)
        /\ idp' = [idp EXCEPT !.last[s.sid] = @ + 1]
        /\ UNCHANGED <<jar, signedIn, epoch, crossed, strained>>
    BY <1>3 DEF Refreshed
  <2>2. /\ Known(s) /\ s # NoCookie
        /\ tab[t].sent \in Nat /\ tab[t].sent <= epoch
        /\ ~crossed /\ tab[t].sent = epoch => s.sid = signedIn.sid
    BY <1>s, <2>1 DEF TabSound
  <2>3. IsCookie(made) /\ made.sid = s.sid /\ s.sid \in 1 .. Len(idp.users)
    <3>1. s = [user |-> s.user, sid |-> s.sid, exp |-> s.exp, refresh |-> s.refresh]
          /\ s.sid \in 1 .. Len(idp.users)
      BY <2>2 DEF Known, IsCookie
    <3>2. made = [user |-> s.user, sid |-> s.sid, exp |-> time + Life,
                  refresh |-> idp.last[s.sid] + 1]
      BY <3>1
    <3> QED BY ONLY <3>1, <3>2 DEF IsCookie
  <2>4. made # NoCookie
    BY <1>s, <2>3, NoCookieFacts
  <2>5. /\ idp'.users = idp.users /\ idp'.alive = idp.alive
        /\ idp' = [users |-> idp'.users, alive |-> idp'.alive, last |-> idp'.last, own |-> idp'.own]
    BY <1>s, <2>1 DEF SessionShape
  <2>6. IdpGrew
    BY <1>s, <2>5 DEF IdpGrew
  <2>7. /\ tab' = [u \in Tabs |-> tab'[u]] /\ IsTab(tab'[t])
        /\ tab'[t].pc = "page" /\ tab'[t].sets[1] = made /\ tab'[t].sent = tab[t].sent
        /\ \A u \in Tabs : u # t => tab'[u] = tab[u]
    <3>1. GetsAnswer(t, "page", made)
      BY <2>1, AnsweredTab
    <3> QED BY <3>1 DEF GetsAnswer
  <2>8. SessionShape'
    BY <1>s, <2>1, <2>5, <2>7 DEF SessionShape
  <2>9. Known(made)'
    BY <2>3, <2>5 DEF Known, IsCookie
  <2>10. TabSound(t)'
    BY <2>1, <2>2, <2>3, <2>4, <2>7, <2>9 DEF TabSound, Holds
  <2> QED BY <2>1, <2>6, <2>7, <2>8, <2>10, OneTab
<1>4. ASSUME NEW t \in Tabs, RefreshRefused(t) \/ RefreshFails(t) PROVE SessionInv'
  <2>1. /\ tab[t].pc = "refresh" /\ tab' = Answered(t, "page", NoCookie)
        /\ UNCHANGED <<jar, idp, signedIn, epoch, crossed>>
        /\ strained => strained'
        /\ strained' \/ tab[t].carried.sid \notin idp.alive
    BY <1>4 DEF RefreshRefused, RefreshFails
  <2>2. /\ tab[t].sent \in Nat /\ tab[t].sent <= epoch
        /\ ~crossed /\ tab[t].sent = epoch => tab[t].carried.sid = signedIn.sid
    BY <1>s, <2>1 DEF TabSound
  <2>3. /\ tab' = [u \in Tabs |-> tab'[u]] /\ IsTab(tab'[t])
        /\ tab'[t].pc = "page" /\ tab'[t].sets[1] = NoCookie /\ tab'[t].sent = tab[t].sent
        /\ \A u \in Tabs : u # t => tab'[u] = tab[u]
    <3>1. GetsAnswer(t, "page", NoCookie)
      BY <2>1, AnsweredTab
    <3> QED BY <3>1 DEF GetsAnswer
  <2>4. SessionShape' /\ IdpGrew
    BY <1>s, <2>1, <2>3, SameIdp DEF SessionShape
  <2>5. Known(NoCookie)'
    BY NoCookieFacts DEF Known, IsCookie
  <2>6. TabSound(t)'
    BY <2>1, <2>2, <2>3, <2>5 DEF TabSound, Holds
  <2> QED BY <2>1, <2>3, <2>4, <2>6, OneTab
<1>5. ASSUME NEW t \in Tabs, PageArrives(t) PROVE SessionInv'
  <2> DEFINE s == tab[t].sets[1]
  <2>1. /\ tab[t].pc = "page" /\ jar' = [jar EXCEPT !.session = s]
        /\ tab' = [tab EXCEPT ![t] = Quiet]
        /\ crossed' = (crossed \/ tab[t].sent # epoch)
        /\ UNCHANGED <<idp, signedIn, epoch, strained>>
    BY <1>5 DEF PageArrives
  <2>2. Known(s) /\ (~crossed /\ tab[t].sent = epoch => Holds(s))
    BY <1>s, <2>1 DEF TabSound
  <2> HIDE DEF s
  <2>3. /\ tab' = [u \in Tabs |-> tab'[u]] /\ tab'[t] = Quiet
        /\ \A u \in Tabs : u # t => tab'[u] = tab[u]
    BY <1>q, <2>1, QuietTab
  <2>4. jar'.session = s /\ jar' = [session |-> jar'.session, flow |-> jar'.flow]
    BY <1>s, <2>1 DEF SessionShape
  <2>5. SessionShape' /\ IdpGrew
    BY <1>s, <2>1, <2>3, <2>4, SameIdp DEF SessionShape
  <2>6. Known(jar.session)' /\ Known(signedIn)'
    BY <1>s, <2>1, <2>2, <2>4 DEF Known, IsCookie
  <2>7. SessionIsWhoSignedIn'
    BY <2>1, <2>2, <2>4 DEF SessionIsWhoSignedIn, Holds
  <2>8. \A u \in Tabs : TabSound(u)'
    <3> SUFFICES ASSUME NEW u \in Tabs PROVE TabSound(u)'
      OBVIOUS
    <3>1. CASE u = t
      BY <1>q, <2>3, <3>1, TabAway
    <3>2. CASE u # t
      BY <2>1, <2>3, <2>5, <3>2, TabKept
    <3> QED BY <3>1, <3>2
  <2> QED BY <2>5, <2>6, <2>7, <2>8 DEF SessionInv
<1>6. ASSUME NEW t \in Tabs, StartSignIn(t) PROVE SessionInv'
  <2> PICK r : r = [Quiet EXCEPT !.pc = "away", !.sent = flows + 1]
    OBVIOUS
  <2>1. /\ jar' = [jar EXCEPT !.flow = flows + 1] /\ tab' = [tab EXCEPT ![t] = r]
        /\ UNCHANGED <<idp, signedIn, epoch, crossed, strained>>
    BY <1>6 DEF StartSignIn
  <2>2. IsTab(r) /\ r.pc = "away"
    <3>1. r = [pc |-> "away", carried |-> NoCookie, sent |-> flows + 1, sets |-> <<>>]
      BY DEF Quiet
    <3> QED BY ONLY <3>1 DEF IsTab
  <2>3. /\ tab' = [u \in Tabs |-> tab'[u]] /\ tab'[t] = r
        /\ \A u \in Tabs : u # t => tab'[u] = tab[u]
    BY <2>1, <2>2, QuietTab
  <2>4. jar'.session = jar.session /\ jar' = [session |-> jar'.session, flow |-> jar'.flow]
    BY <1>s, <2>1 DEF SessionShape
  <2>5. SessionShape' /\ IdpGrew
    BY <1>s, <2>1, <2>3, <2>4, SameIdp DEF SessionShape
  <2>6. TabSound(t)'
    BY <2>2, <2>3, TabAway
  <2> QED BY <2>1, <2>3, <2>4, <2>5, <2>6, OneTab
<1>7. ASSUME NEW t \in Tabs, NEW u \in Users, Callback(t, u) PROVE SessionInv'
  <2> PICK o : o = Opened(u)
    OBVIOUS
  <2> PICK made : made = [user |-> idp'.users[idp'.own], sid |-> idp'.own, exp |-> time + Life,
                          refresh |-> idp'.last[idp'.own]]
    OBVIOUS
  <2>1. /\ idp' = [o EXCEPT !.last[o.own] = @ + 1] /\ tab' = Answered(t, "signed in", made)
        /\ UNCHANGED <<jar, signedIn, epoch, crossed, strained>>
    BY <1>7 DEF Callback
  <2>2. /\ o = [users |-> o.users, alive |-> o.alive, last |-> o.last, own |-> o.own]
        /\ o.users \in Seq(Users) /\ o.alive \subseteq 1 .. Len(o.users)
        /\ o.own \in 1 .. Len(o.users) /\ Len(o.users) \in Nat /\ Len(idp.users) <= Len(o.users)
        /\ \A n \in 0 .. Len(idp.users) : n \in o.alive => n \in idp.alive
    <3>1. CASE idp.own \in idp.alive
      BY <1>s, <3>1 DEF Opened, SessionShape
    <3>2. CASE idp.own \notin idp.alive
      <4> PICK sid : sid = Len(idp.users) + 1
        OBVIOUS
      <4>1. o = [users |-> Append(idp.users, u), alive |-> idp.alive \cup {sid},
                 last |-> Append(idp.last, 0), own |-> sid]
        BY <3>2 DEF Opened
      <4>2. Append(idp.users, u) \in Seq(Users) /\ Len(Append(idp.users, u)) = sid
        BY <1>s DEF SessionShape
      <4>3. idp.alive \subseteq 1 .. Len(idp.users)
        BY <1>s DEF SessionShape
      <4> QED BY <1>s, <4>1, <4>2, <4>3
    <3> QED BY <3>1, <3>2
  <2>3. /\ idp'.users = o.users /\ idp'.alive = o.alive /\ idp'.own = o.own
        /\ idp' = [users |-> idp'.users, alive |-> idp'.alive, last |-> idp'.last, own |-> idp'.own]
    BY <2>1, <2>2
  <2>4. IdpGrew
    BY <1>s, <2>2, <2>3 DEF IdpGrew
  <2>5. made.sid = o.own /\ IsCookie(made)
    BY <2>3 DEF IsCookie
  <2>6. Known(made)' /\ made # NoCookie
    <3>1. made # NoCookie
      BY <2>2, <2>5, NoCookieFacts
    <3>2. Known(made)'
      BY <2>2, <2>3, <2>5 DEF Known, IsCookie
    <3> QED BY <3>1, <3>2
  <2>7. /\ tab' = [v \in Tabs |-> tab'[v]] /\ IsTab(tab'[t])
        /\ tab'[t].pc = "signed in" /\ tab'[t].sets[1] = made
        /\ \A v \in Tabs : v # t => tab'[v] = tab[v]
    <3>1. GetsAnswer(t, "signed in", made)
      BY <2>1, AnsweredTab
    <3> QED BY <3>1 DEF GetsAnswer
  <2>8. SessionShape'
    BY <1>s, <2>1, <2>2, <2>3, <2>7 DEF SessionShape
  <2>9. TabSound(t)'
    BY <2>6, <2>7 DEF TabSound
  <2> QED BY <2>1, <2>4, <2>7, <2>8, <2>9, OneTab
<1>8. ASSUME NEW t \in Tabs, CallbackFails(t) PROVE SessionInv'
  <2>1. /\ jar' = [jar EXCEPT !.flow = 0] /\ tab' = [tab EXCEPT ![t] = Quiet]
        /\ UNCHANGED <<idp, signedIn, epoch, crossed, strained>>
    BY <1>8 DEF CallbackFails
  <2>3. /\ tab' = [u \in Tabs |-> tab'[u]] /\ tab'[t] = Quiet
        /\ \A u \in Tabs : u # t => tab'[u] = tab[u]
    BY <1>q, <2>1, QuietTab
  <2>4. jar'.session = jar.session /\ jar' = [session |-> jar'.session, flow |-> jar'.flow]
    BY <1>s, <2>1 DEF SessionShape
  <2>5. SessionShape' /\ IdpGrew
    BY <1>s, <2>1, <2>3, <2>4, SameIdp DEF SessionShape
  <2>6. TabSound(t)'
    BY <1>q, <2>3, TabAway
  <2> QED BY <2>1, <2>3, <2>4, <2>5, <2>6, OneTab
\* The epoch ends: whatever is under way was sent before it.
<1>e. ASSUME IdpGrew, epoch' = epoch + 1, NEW t \in Tabs, tab'[t] = tab[t]
      PROVE  TabSound(t)'
  <2>1. TabSound(t) /\ epoch \in Nat
    BY <1>s
  <2>2. \A s : Known(s) => Known(s)'
    BY <1>e, KnownKept
  <2>3. \A n \in Nat : n <= epoch => n <= epoch' /\ n # epoch'
    BY <1>e, <2>1
  <2>4. CASE tab[t].pc = "refresh"
    BY <1>e, <2>1, <2>2, <2>3, <2>4 DEF TabSound
  <2>5. CASE tab[t].pc = "page"
    BY <1>e, <2>1, <2>2, <2>3, <2>5 DEF TabSound
  <2>6. CASE tab[t].pc = "signed in"
    BY <1>e, <2>1, <2>2, <2>6 DEF TabSound
  <2>7. CASE tab[t].pc \notin {"refresh", "page", "signed in"}
    BY <1>e, <2>1, <2>7 DEF TabSound
  <2> QED BY <2>4, <2>5, <2>6, <2>7
<1>9. ASSUME NEW t \in Tabs, SignInArrives(t) PROVE SessionInv'
  <2> DEFINE s == tab[t].sets[1]
  <2>1. /\ tab[t].pc = "signed in" /\ jar' = [session |-> s, flow |-> 0] /\ signedIn' = s
        /\ epoch' = epoch + 1 /\ tab' = [tab EXCEPT ![t] = Quiet] /\ idp' = idp
    BY <1>9 DEF SignInArrives
  <2>2. Known(s) /\ s # NoCookie
    BY <1>s, <2>1 DEF TabSound
  <2> HIDE DEF s
  <2>3. /\ tab' = [u \in Tabs |-> tab'[u]] /\ tab'[t] = Quiet
        /\ \A u \in Tabs : u # t => tab'[u] = tab[u]
    BY <1>q, <2>1, QuietTab
  <2>4. jar'.session = s /\ jar' = [session |-> jar'.session, flow |-> jar'.flow]
    BY <2>1
  <2>5. SessionShape' /\ IdpGrew
    <3>0. epoch \in Nat /\ epoch' = epoch + 1
      BY <1>s, <2>1
    <3>1. epoch' \in Nat
      BY <3>0
    <3>2. idp' = idp
      BY <2>1
    <3> QED BY <1>s, <2>3, <2>4, <3>1, <3>2, SameIdp DEF SessionShape
  <2>6. Known(jar.session)' /\ Known(signedIn)'
    BY <2>1, <2>2, <2>4 DEF Known, IsCookie
  <2>7. SessionIsWhoSignedIn'
    BY <2>1, <2>2, <2>4 DEF SessionIsWhoSignedIn
  <2>8. \A u \in Tabs : TabSound(u)'
    <3> SUFFICES ASSUME NEW u \in Tabs PROVE TabSound(u)'
      OBVIOUS
    <3>1. CASE u = t
      BY <1>q, <2>3, <3>1, TabAway
    <3>2. CASE u # t
      BY <1>e, <2>1, <2>3, <2>5, <3>2
    <3> QED BY <3>1, <3>2
  <2> QED BY <2>5, <2>6, <2>7, <2>8 DEF SessionInv
<1>10. ASSUME NEW t \in Tabs, SignOut(t) PROVE SessionInv'
  <2>1. /\ jar' = [jar EXCEPT !.session = NoCookie] /\ signedIn' = NoCookie
        /\ epoch' = epoch + 1 /\ UNCHANGED <<tab, idp, strained>>
    BY <1>10 DEF SignOut
  <2>2. jar'.session = NoCookie /\ jar' = [session |-> jar'.session, flow |-> jar'.flow]
    BY <1>s, <2>1 DEF SessionShape
  <2>3. SessionShape' /\ IdpGrew
    BY <1>s, <2>1, <2>2, SameIdp DEF SessionShape
  <2>4. Known(jar.session)' /\ Known(signedIn)'
    BY <2>1, <2>2, NoCookieFacts DEF Known, IsCookie
  <2>5. SessionIsWhoSignedIn'
    <3>1. 0 \notin idp.alive
      BY <1>s DEF SessionShape
    <3> QED BY <2>1, <2>2, <3>1, NoCookieFacts DEF SessionIsWhoSignedIn
  <2>6. \A u \in Tabs : TabSound(u)'
    BY <1>e, <2>1, <2>3
  <2> QED BY <2>3, <2>4, <2>5, <2>6 DEF SessionInv
<1>11. ASSUME NEW sid \in idp.alive, IdpEnds(sid) PROVE SessionInv'
  <2>1. /\ idp' = [idp EXCEPT !.alive = @ \ {sid}]
        /\ UNCHANGED <<jar, tab, signedIn, epoch, crossed, strained>>
    BY <1>11 DEF IdpEnds
  <2>2. /\ idp'.users = idp.users /\ idp'.alive = idp.alive \ {sid}
        /\ idp' = [users |-> idp'.users, alive |-> idp'.alive, last |-> idp'.last, own |-> idp'.own]
    BY <1>s, <2>1 DEF SessionShape
  <2>3. SessionShape' /\ IdpGrew
    BY <1>s, <2>1, <2>2 DEF SessionShape, IdpGrew
  <2>4. Known(jar.session)' /\ Known(signedIn)'
    BY <1>s, <2>1, <2>2 DEF Known, IsCookie
  <2>5. SessionIsWhoSignedIn'
    BY <1>s, <2>1, <2>2 DEF SessionIsWhoSignedIn, Holds
  <2>6. \A u \in Tabs : TabSound(u)'
    BY <2>1, <2>3, TabKept
  <2> QED BY <2>3, <2>4, <2>5, <2>6 DEF SessionInv
<1> QED BY <1>1, <1>2, <1>3, <1>4, <1>5, <1>6, <1>7, <1>8, <1>9, <1>10, <1>11 DEF SessionNext

\* For any tabs and users, whatever the provider does with refresh tokens and however
\* often it fails: unless an answer to an older request came late, the jar holds the
\* session of who signed in last, until the provider ends it or a refresh was strained.
THEOREM SessionStays == SessionSpec => []SessionIsWhoSignedIn
<1>1. SessionInit => SessionInv
  <2> SUFFICES ASSUME SessionInit PROVE SessionInv
    OBVIOUS
  <2>1. /\ jar.session = NoCookie /\ signedIn = NoCookie /\ idp.alive = {}
        /\ SessionShape
    BY DEF SessionInit, SessionShape
  <2>2. Known(jar.session) /\ Known(signedIn)
    BY <2>1, NoCookieFacts DEF Known
  <2>3. SessionIsWhoSignedIn
    BY <2>1 DEF SessionIsWhoSignedIn
  <2>4. \A t \in Tabs : tab[t] = Quiet
    BY DEF SessionInit
  <2>5. \A t \in Tabs : TabSound(t)
    <3>1. IsTab(Quiet) /\ Quiet.pc = "quiet"
      BY DEF IsTab, Quiet
    <3> QED BY <2>4, <3>1 DEF TabSound
  <2> QED BY <2>1, <2>2, <2>3, <2>5 DEF SessionInv
<1>2. SessionInv /\ [SessionNext]_sessionVars => SessionInv'
  BY SessionStepInv
<1>3. SessionInv => SessionIsWhoSignedIn
  BY DEF SessionInv
<1> QED BY <1>1, <1>2, <1>3, PTL DEF SessionSpec

-----------------------------------------------------------------------------
(* Documents.                                                              *)

DocumentEvents == [type : {"document.extracted", "document.approved"}, by : Reviewers \cup {"extraction"}]

DocumentShape ==
  /\ document = [status |-> document.status, by |-> document.by, data |-> document.data]
  /\ upload = [pc |-> upload.pc, reading |-> upload.reading]
  /\ review = [r \in Reviewers |-> review[r]]
  /\ documentLog \in Seq(DocumentEvents)
  /\ upload.pc \in {"store", "read", "settle", "failed", "done"}

\* Until the upload has settled there is nothing to review, and after it there is.
UploadFirst ==
  /\ upload.pc # "done" =>
       /\ \A r \in Reviewers : review[r] = "quiet"
       /\ documentLog = <<>>
       /\ document.status \in {"none", "PENDING_EXTRACTION"}
  /\ upload.pc = "done" => document.status \notin {"none", "PENDING_EXTRACTION"}

\* Unless reviews overlapped, the one that decides finds the document as it read it,
\* and none has approved it.
OneReview ==
  ~shared =>
    /\ \A r, q \in Reviewers : review[r] # "quiet" /\ review[q] # "quiet" => r = q
    /\ \A r \in Reviewers : review[r] # "quiet" => document.status = "PENDING_REVIEW"
    /\ document.status = "PENDING_REVIEW" => Approvals = {}

DocumentInv == DocumentShape /\ UploadFirst /\ OneReview /\ DocumentSettled

\* What an event adds to the approvals.
LEMMA ApprovalsGrow ==
  ASSUME documentLog \in Seq(DocumentEvents), NEW e \in DocumentEvents,
         documentLog' = Append(documentLog, e)
  PROVE  /\ documentLog' \in Seq(DocumentEvents)
         /\ \A i \in Approvals : i \in Approvals' /\ documentLog'[i] = documentLog[i]
         /\ e.type # "document.approved" => Approvals' = Approvals
         /\ e.type = "document.approved" =>
              \E i \in Approvals' : Approvals' = Approvals \cup {i} /\ documentLog'[i] = e
<1> PICK n : n = Len(documentLog)
  OBVIOUS
<1>1. n \in Nat /\ DOMAIN documentLog = 1 .. n /\ DOMAIN documentLog' = 1 .. (n + 1)
  OBVIOUS
<1>2. documentLog'[n + 1] = e /\ \A i \in 1 .. n : documentLog'[i] = documentLog[i]
  OBVIOUS
<1>3. 1 .. (n + 1) = (1 .. n) \cup {n + 1} /\ n + 1 \notin 1 .. n
  BY <1>1
<1>4. documentLog' \in Seq(DocumentEvents)
  OBVIOUS
<1>5. Approvals' = {i \in 1 .. (n + 1) : documentLog'[i].type = "document.approved"}
      /\ Approvals = {i \in 1 .. n : documentLog[i].type = "document.approved"}
  BY <1>1 DEF Approvals
<1>6. \A i \in Approvals : i \in Approvals' /\ documentLog'[i] = documentLog[i]
  BY <1>2, <1>3, <1>5
<1>7. CASE e.type # "document.approved"
  <2>1. Approvals' = Approvals
    BY <1>2, <1>3, <1>5, <1>7
  <2> QED BY <1>4, <1>6, <1>7, <2>1
<1>8. CASE e.type = "document.approved"
  <2>1. Approvals' = Approvals \cup {n + 1}
    BY <1>2, <1>3, <1>5, <1>8
  <2> QED BY <1>2, <1>4, <1>6, <1>8, <2>1
<1> QED BY <1>7, <1>8

LEMMA DocumentStepInv ==
  ASSUME DocumentInv, [DocumentsNext]_documentVars
  PROVE  DocumentInv'
<1> USE DEF DocumentInv
<1>1. CASE UNCHANGED documentVars
  BY <1>1 DEF documentVars, DocumentShape, UploadFirst, OneReview, DocumentSettled, Approvals
<1>2. CASE StoreDocument
  <2>1. /\ upload.pc = "store" /\ document' = [document EXCEPT !.status = "PENDING_EXTRACTION"]
        /\ upload' = [upload EXCEPT !.pc = IF extractable THEN "read" ELSE "settle"]
        /\ UNCHANGED <<review, documentLog, shared>>
    BY <1>2 DEF StoreDocument
  <2>2. /\ document'.status = "PENDING_EXTRACTION"
        /\ document' = [status |-> document'.status, by |-> document'.by, data |-> document'.data]
    BY <2>1 DEF DocumentShape
  <2>3. upload'.pc \in {"read", "settle"} /\ upload' = [pc |-> upload'.pc, reading |-> upload'.reading]
    BY <2>1 DEF DocumentShape
  <2>4. Approvals' = Approvals /\ Approvals = {}
    BY <2>1 DEF Approvals, UploadFirst
  <2>5. DocumentShape' /\ UploadFirst'
    BY <2>1, <2>2, <2>3 DEF DocumentShape, UploadFirst
  <2>6. OneReview' /\ DocumentSettled'
    BY <2>1, <2>2, <2>3, <2>4 DEF OneReview, DocumentSettled, UploadFirst
  <2> QED BY <2>5, <2>6
<1>3. CASE ReadDocument \/ UploadFails
  <2>1. /\ upload.pc \in {"store", "read", "settle"} /\ upload'.pc \in {"settle", "failed"}
        /\ upload' = [pc |-> upload'.pc, reading |-> upload'.reading]
        /\ UNCHANGED <<document, review, documentLog, shared>>
    BY <1>3 DEF ReadDocument, UploadFails, DocumentShape
  <2>2. DocumentShape' /\ UploadFirst'
    BY <2>1 DEF DocumentShape, UploadFirst
  <2>3. OneReview' /\ DocumentSettled'
    BY <2>1 DEF OneReview, DocumentSettled, UploadFirst, Approvals
  <2> QED BY <2>2, <2>3
<1>4. CASE SettleUpload
  <2> PICK e : e = [type |-> "document.extracted", by |-> "extraction"]
    OBVIOUS
  <2>1. /\ upload.pc = "settle" /\ upload' = [upload EXCEPT !.pc = "done"]
        /\ document' = [status |-> document'.status, by |-> document'.by, data |-> document'.data]
        /\ document'.status \in {"APPROVED", "PENDING_REVIEW"}
        /\ document'.status = "APPROVED" =>
             upload.reading = "sure" /\ document'.by = "auto" /\ document'.data = "read"
        /\ documentLog' = documentLog \/ documentLog' = Append(documentLog, e)
        /\ UNCHANGED <<review, shared>>
    BY <1>4 DEF SettleUpload
  <2>2. /\ upload'.pc = "done" /\ upload'.reading = upload.reading
        /\ upload' = [pc |-> upload'.pc, reading |-> upload'.reading]
    BY <2>1 DEF DocumentShape
  <2>3. documentLog = <<>> /\ \A r \in Reviewers : review[r] = "quiet"
    BY <2>1 DEF UploadFirst
  <2>4. Approvals = {}
    BY <2>3 DEF Approvals
  <2>5. documentLog' \in Seq(DocumentEvents) /\ Approvals' = {}
    <3>1. CASE documentLog' = documentLog
      BY <2>4, <3>1 DEF DocumentShape, Approvals
    <3>2. CASE documentLog' = Append(documentLog, e)
      <4>1. e \in DocumentEvents /\ e.type # "document.approved"
        BY DEF DocumentEvents
      <4> QED BY <2>4, <3>2, <4>1, ApprovalsGrow DEF DocumentShape
    <3> QED BY <2>1, <3>1, <3>2
  <2>6. DocumentShape' /\ UploadFirst'
    BY <2>1, <2>2, <2>5 DEF DocumentShape, UploadFirst
  <2>7. OneReview' /\ DocumentSettled'
    BY <2>1, <2>2, <2>3, <2>5 DEF OneReview, DocumentSettled
  <2> QED BY <2>6, <2>7
<1>5. ASSUME NEW r \in Reviewers, StartReview(r) PROVE DocumentInv'
  <2>1. /\ document.status = "PENDING_REVIEW" /\ review' = [review EXCEPT ![r] = "decides"]
        /\ shared' = (shared \/ \E q \in Reviewers : review[q] # "quiet")
        /\ UNCHANGED <<document, upload, documentLog>>
    BY <1>5 DEF StartReview
  <2>2. /\ review' = [q \in Reviewers |-> review'[q]]
        /\ \A q \in Reviewers : q # r => review'[q] = review[q]
    BY <2>1 DEF DocumentShape
  <2>3. Approvals' = Approvals
    BY <2>1 DEF Approvals
  <2>4. upload.pc = "done"
    BY <2>1 DEF UploadFirst
  <2>5. DocumentShape' /\ UploadFirst'
    BY <2>1, <2>2, <2>4 DEF DocumentShape, UploadFirst
  <2>6. ~shared' => ~shared /\ \A q \in Reviewers : review[q] = "quiet"
    BY <2>1
  <2>7. OneReview'
    BY <2>1, <2>2, <2>3, <2>6 DEF OneReview
  <2>8. DocumentSettled'
    BY <2>1, <2>3, <2>6 DEF DocumentSettled
  <2> QED BY <2>5, <2>7, <2>8
<1>6. ASSUME NEW r \in Reviewers, ReviewFails(r) PROVE DocumentInv'
  <2>1. /\ review[r] = "decides" /\ review' = [review EXCEPT ![r] = "quiet"]
        /\ UNCHANGED <<document, upload, documentLog, shared>>
    BY <1>6 DEF ReviewFails
  <2>2. /\ review' = [q \in Reviewers |-> review'[q]]
        /\ \A q \in Reviewers : review'[q] = "quiet" \/ review'[q] = review[q]
    BY <2>1 DEF DocumentShape
  <2>3. Approvals' = Approvals
    BY <2>1 DEF Approvals
  <2>4. DocumentShape' /\ UploadFirst'
    BY <2>1, <2>2 DEF DocumentShape, UploadFirst
  <2>5. OneReview'
    BY <2>1, <2>2, <2>3 DEF OneReview
  <2>6. DocumentSettled'
    BY <2>1, <2>3 DEF DocumentSettled
  <2> QED BY <2>4, <2>5, <2>6
<1>7. ASSUME NEW r \in Reviewers, NEW decision \in {"APPROVED", "REJECTED"},
             NEW corrects \in BOOLEAN, Decide(r, decision, corrects)
      PROVE  DocumentInv'
  <2> PICK e : e = [type |-> "document.approved", by |-> r]
    OBVIOUS
  <2>1. /\ review[r] = "decides" /\ review' = [review EXCEPT ![r] = "quiet"]
        /\ document' = [status |-> document'.status, by |-> document'.by, data |-> document'.data]
        /\ document'.status = decision /\ document'.by = r
        /\ decision = "REJECTED" => documentLog' = documentLog
        /\ decision = "APPROVED" => documentLog' = Append(documentLog, e)
        /\ UNCHANGED <<upload, shared>>
    BY <1>7 DEF Decide
  <2>2. /\ review' = [q \in Reviewers |-> review'[q]] /\ review'[r] = "quiet"
        /\ \A q \in Reviewers : q # r => review'[q] = review[q]
    BY <2>1 DEF DocumentShape
  <2>3. upload.pc = "done"
    BY <2>1 DEF UploadFirst
  <2>4. ~shared => Approvals = {} /\ \A q \in Reviewers : review'[q] = "quiet"
    BY <2>1, <2>2 DEF OneReview
  <2>5. e \in DocumentEvents /\ e.type = "document.approved" /\ e.by = r
    BY DEF DocumentEvents
  <2>6. documentLog' \in Seq(DocumentEvents)
    BY <2>1, <2>5, ApprovalsGrow DEF DocumentShape
  <2>7. DocumentShape' /\ UploadFirst'
    BY <2>1, <2>2, <2>3, <2>6 DEF DocumentShape, UploadFirst
  <2>8. OneReview'
    BY <2>1, <2>4 DEF OneReview
  <2>9. DocumentSettled'
    <3>1. CASE decision = "REJECTED"
      <4>1. Approvals' = Approvals
        BY <2>1, <3>1 DEF Approvals
      <4> QED BY <2>1, <2>3, <2>4, <3>1, <4>1 DEF DocumentSettled
    <3>2. CASE decision = "APPROVED"
      <4>1. PICK i \in Approvals' : Approvals' = Approvals \cup {i} /\ documentLog'[i] = e
        BY <2>1, <2>5, <3>2, ApprovalsGrow DEF DocumentShape
      <4> QED BY <2>1, <2>4, <2>5, <3>2, <4>1 DEF DocumentSettled
    <3> QED BY <3>1, <3>2
  <2> QED BY <2>7, <2>8, <2>9
<1> QED BY <1>1, <1>2, <1>3, <1>4, <1>5, <1>6, <1>7 DEF DocumentsNext

\* For any reviewers, and reviews and failures as many as there are: nothing is approved
\* but by a sure reading or a reviewer on the log, one approval stands unless reviews
\* overlapped, and no settled upload leaves its document where nobody can review it.
THEOREM DocumentsSettle == DocumentsSpec => []DocumentSettled
<1>1. DocumentsInit => DocumentInv
  <2> SUFFICES ASSUME DocumentsInit PROVE DocumentInv
    OBVIOUS
  <2>1. Approvals = {}
    BY DEF DocumentsInit, Approvals
  <2>2. DocumentShape /\ UploadFirst
    BY DEF DocumentsInit, NoDocument, DocumentShape, UploadFirst
  <2>3. OneReview /\ DocumentSettled
    BY <2>1 DEF DocumentsInit, NoDocument, OneReview, DocumentSettled
  <2> QED BY <2>2, <2>3 DEF DocumentInv
<1>2. DocumentInv /\ [DocumentsNext]_documentVars => DocumentInv'
  BY DocumentStepInv
<1>3. DocumentInv => DocumentSettled
  BY DEF DocumentInv
<1> QED BY <1>1, <1>2, <1>3, PTL DEF DocumentsSpec

-----------------------------------------------------------------------------
(* Customs entries.                                                        *)

USE EventLogAssumption, CustomsAssumption

\* Who holds the lock is between its UPDATE and its commit, and nobody else is.
LockSound ==
  \A c \in Calls : locked = c <=> pc[c] \in {"append", "commit"}

\* An event not yet committed is the last one stamped, and that of its call.
StampSound ==
  /\ \A c \in Calls :
       open[c] = IF pc[c] = "commit" THEN {clock} ELSE {}
  /\ \A c \in Calls : pc[c] = "commit" =>
       /\ clock \in Positions
       /\ clock \notin committed
       /\ event[clock].type = op[c]

\* A call that has reached its transaction is one that moves the entry.
OpSound ==
  \A c \in Calls : pc[c] \in {"update", "append", "commit"} => op[c] \in Moves

CustomsInv == TypeOK /\ OpSound /\ LockSound /\ StampSound /\ StatusIsLastEvent

-----------------------------------------------------------------------------

LEMMA CustomsInit == Init => CustomsInv
<1> SUFFICES ASSUME Init PROVE CustomsInv
  OBVIOUS
<1>1. LogTypeOK
  BY DEF Init, LogInit, LogTypeOK, Positions
<1>2. /\ created \in {"no", "entry", "failed", "yes"}
      /\ status \in EntryStatus
      /\ code \in [Lines -> Codes]
      /\ confirmed \subseteq Lines
      /\ event \in [Positions -> [type : Moves \cup {"none"}, codes : [Lines -> Codes]]]
  BY DEF Init, EntryStatus, Codes, NoEvent
<1>3. /\ pc \in [Calls -> {"idle", "entry", "lines", "confirm", "update", "append", "commit"}]
      /\ op \in [Calls -> Ops]
      /\ read \in [Calls -> EntryStatus]
      /\ seen \in [Calls -> [Lines -> Codes]]
      /\ calls \in 0 .. MaxCalls
      /\ faults \in 0 .. MaxFaults
  BY DEF Init, EntryStatus, Codes, Ops, Moves
<1>4. locked \in Calls \cup {Nobody} /\ alone \in [Calls -> BOOLEAN]
  BY Zenon DEF Init
<1>5. TypeOK
  BY <1>1, <1>2, <1>3, <1>4 DEF TypeOK
<1>6. OpSound /\ LockSound /\ StampSound /\ StatusIsLastEvent
  BY DEF Init, LogInit, OpSound, LockSound, StampSound, StatusIsLastEvent, Calls
<1> QED
  BY <1>5, <1>6 DEF CustomsInv

\* Of a call that was answered nothing is left, and the others keep what they have.
LEMMA Forgotten ==
  ASSUME TypeOK, NEW c \in Calls, Forget(c)
  PROVE  /\ op' \in [Calls -> Ops] /\ read' \in [Calls -> EntryStatus]
         /\ seen' \in [Calls -> [Lines -> Codes]] /\ alone' \in [Calls -> BOOLEAN]
         /\ read'[c] = "DRAFT"
         /\ \A d \in Calls \ {c} :
              op'[d] = op[d] /\ read'[d] = read[d] /\ seen'[d] = seen[d] /\ alone'[d] = alone[d]
<1>1. op' \in [Calls -> Ops] /\ \A d \in Calls \ {c} : op'[d] = op[d]
  <2>1. "PREPARED" \in Ops
    BY DEF Ops, Moves, EntryStatus
  <2> QED BY <2>1 DEF Forget, TypeOK
<1>2. /\ read' \in [Calls -> EntryStatus] /\ read'[c] = "DRAFT"
      /\ \A d \in Calls \ {c} : read'[d] = read[d]
  BY DEF Forget, TypeOK, EntryStatus
<1>3. seen' \in [Calls -> [Lines -> Codes]] /\ \A d \in Calls \ {c} : seen'[d] = seen[d]
  <2>1. NoEvent.codes \in [Lines -> Codes]
    BY DEF NoEvent, Codes
  <2> QED BY <2>1 DEF Forget, TypeOK
<1>4. alone' \in [Calls -> BOOLEAN] /\ \A d \in Calls \ {c} : alone'[d] = alone[d]
  BY Zenon DEF Forget, TypeOK
<1> QED BY <1>1, <1>2, <1>3, <1>4

LEMMA CustomsType == TypeOK /\ OpSound /\ [Next]_vars => TypeOK'
<1> SUFFICES ASSUME TypeOK, OpSound, [Next]_vars PROVE TypeOK'
  OBVIOUS
<1> USE DEF TypeOK, LogTypeOK, Positions, Calls
<1>1. CASE InsertEntry
  BY <1>1 DEF InsertEntry, callVars, logVars
<1>2. CASE InsertLines
  BY <1>2 DEF InsertLines, callVars, logVars, Codes
<1>3. CASE CreationFails
  BY <1>3 DEF CreationFails, logVars
<1>4. ASSUME NEW c \in Calls, CallStep(c) PROVE TypeOK'
  <2>1. CASE Start(c)
    <3>1. alone' \in [Calls -> BOOLEAN]
      BY <2>1, Zenon DEF Start
    <3>2. /\ pc' \in [Calls -> {"idle", "entry", "lines", "confirm", "update",
                               "append", "commit"}]
          /\ op' \in [Calls -> Ops]
          /\ calls' \in 0 .. MaxCalls
      <4>1. pc' = [pc EXCEPT ![c] = "entry"]
        BY <2>1, Zenon DEF Start, At
      <4>2. PICK o \in Ops : op' = [op EXCEPT ![c] = o]
        BY <2>1, Zenon DEF Start
      <4>3. calls < MaxCalls /\ calls' = calls + 1
        BY <2>1, Zenon DEF Start
      <4> QED
        BY <4>1, <4>2, <4>3
    <3>3. UNCHANGED <<logVars, created, status, code, confirmed, event,
                      locked, read, seen, faults>>
      BY <2>1, Zenon DEF Start
    <3> QED
      BY <3>1, <3>2, <3>3 DEF logVars
  <2>2. CASE ReadEntry(c)
    BY <2>2 DEF ReadEntry, At, logVars
  <2>3. CASE ReadLines(c)
    BY <2>3 DEF ReadLines, At, logVars
  <2>4. CASE Refuse(c)
    BY <2>4, Forgotten DEF Refuse, At, logVars
  <2>5. CASE Confirm(c)
    <3>1. Forget(c)
      BY <2>5 DEF Confirm
    <3>2. code' \in [Lines -> Codes] /\ confirmed' \subseteq Lines
      BY <2>5 DEF Confirm, Codes
    <3>3. /\ UNCHANGED <<logVars, created, status, event, locked, calls, faults>>
          /\ pc' = [pc EXCEPT ![c] = "idle"]
      BY <2>5 DEF Confirm, At
    <3> QED
      BY <3>1, <3>2, <3>3, Forgotten DEF logVars
  <2>6. CASE Update(c)
    BY <2>6 DEF Update, At, logVars
  <2>7. CASE AppendEvent(c)
    <3>1. LogTypeOK'
      BY <2>7 DEF AppendEvent, Stamp
    <3>2. event' \in [Positions -> [type : Moves \cup {"none"}, codes : [Lines -> Codes]]]
      <4>1. pc[c] = "append"
        BY <2>7 DEF AppendEvent, At
      <4> DEFINE new == Event(op[c], IF op[c] = "PREPARED" THEN seen[c] ELSE NoEvent.codes)
      <4>2. new \in [type : Moves \cup {"none"}, codes : [Lines -> Codes]]
        BY <4>1 DEF OpSound, Event, NoEvent, Codes
      <4> QED
        BY <2>7, <4>2 DEF AppendEvent
    <3> QED
      BY <2>7, <3>1, <3>2 DEF AppendEvent, At
  <2>8. CASE CommitMove(c)
    <3>1. LogTypeOK'
      BY <2>8 DEF CommitMove, Commit
    <3>2. status' \in EntryStatus
      BY <2>8 DEF OpSound, CommitMove, At, Moves
    <3> QED
      BY <2>8, <3>1, <3>2, Forgotten DEF CommitMove, At
  <2> QED
    BY <1>4, <2>1, <2>2, <2>3, <2>4, <2>5, <2>6, <2>7, <2>8 DEF CallStep
<1>5. ASSUME NEW c \in Calls, Fail(c) PROVE TypeOK'
  <2>1. LogTypeOK'
    BY <1>5 DEF Fail, Rollback, logVars
  <2>2. /\ pc' \in [Calls -> {"idle", "entry", "lines", "confirm", "update",
                             "append", "commit"}]
        /\ locked' \in Calls \cup {Nobody}
        /\ faults' \in 0 .. MaxFaults
    <3>1. /\ pc' = [pc EXCEPT ![c] = "idle"]
          /\ faults < MaxFaults /\ faults' = faults + 1
          /\ locked' = IF locked = c THEN Nobody ELSE locked
      BY <1>5, Zenon DEF Fail
    <3> QED
      BY <3>1
  <2>3. UNCHANGED <<created, status, code, confirmed, event, calls>> /\ Forget(c)
    BY <1>5, Zenon DEF Fail
  <2> QED
    BY <2>1, <2>2, <2>3, Forgotten
<1>6. CASE UNCHANGED vars
  BY <1>6 DEF vars, logVars, callVars
<1> QED
  BY <1>1, <1>2, <1>3, <1>4, <1>5, <1>6 DEF Next

\* Every step keeps the invariant.
LEMMA CustomsStep == CustomsInv /\ [Next]_vars => CustomsInv'
<1> SUFFICES ASSUME CustomsInv, [Next]_vars PROVE CustomsInv'
  OBVIOUS
<1> USE DEF CustomsInv, Calls
<1>1. TypeOK'
  BY CustomsType
<1>2. ASSUME UNCHANGED <<logVars, status, event, locked, pc, op>> PROVE CustomsInv'
  BY <1>1, <1>2 DEF logVars, OpSound, LockSound, StampSound, StatusIsLastEvent
<1>3. ASSUME NEW c \in Calls, Start(c) \/ ReadEntry(c) \/ ReadLines(c) \/ Refuse(c) \/ Confirm(c)
      PROVE  CustomsInv'
  <2>1. /\ UNCHANGED <<logVars, status, event, locked>>
        /\ pc[c] \in {"idle", "entry", "lines", "confirm"}
        /\ \A d \in Calls \ {c} : pc'[d] = pc[d] /\ op'[d] = op[d]
    BY <1>3 DEF TypeOK, Start, ReadEntry, ReadLines, Refuse, Confirm, Forget, At
  <2>2. pc'[c] \in {"idle", "entry", "lines", "confirm", "update"}
    BY <1>3 DEF TypeOK, Start, ReadEntry, ReadLines, Refuse, Confirm, Forget, At
  <2>3. pc'[c] = "update" => op'[c] \in Moves
    BY <1>3 DEF TypeOK, Start, ReadEntry, ReadLines, Refuse, Confirm, Forget, At
  <2> QED
    BY <1>1, <2>1, <2>2, <2>3
       DEF logVars, OpSound, LockSound, StampSound, StatusIsLastEvent
<1>4. ASSUME NEW c \in Calls, Update(c) PROVE CustomsInv'
  BY <1>1, <1>4
     DEF Update, At, TypeOK, logVars, OpSound, LockSound, StampSound, StatusIsLastEvent
<1>5. ASSUME NEW c \in Calls, AppendEvent(c) PROVE CustomsInv'
  <2>1. /\ pc[c] = "append" /\ locked = c
        /\ \A d \in Calls \ {c} : pc[d] \notin {"append", "commit"}
    BY <1>5 DEF AppendEvent, At, LockSound
  <2>2. clock' = clock + 1 /\ clock + 1 \in Positions /\ clock + 1 \notin committed
    BY <1>5 DEF AppendEvent, Stamp, TypeOK, LogTypeOK, Positions
  <2>3. /\ event'[clock + 1].type = op[c]
        /\ \A p \in committed : event'[p] = event[p]
    BY <1>5, <2>2 DEF AppendEvent, TypeOK, LogTypeOK, Positions, Event
  <2>4. UNCHANGED <<committed, status, locked, op>>
    BY <1>5 DEF AppendEvent, Stamp
  <2>5. open' = [d \in Calls |-> IF d = c THEN {clock + 1} ELSE open[d]]
    BY <1>5, <2>1 DEF AppendEvent, Stamp, StampSound, TypeOK, LogTypeOK
  <2>6. pc' = [pc EXCEPT ![c] = "commit"]
    BY <1>5 DEF AppendEvent, At
  <2>7. OpSound' /\ LockSound'
    BY <2>1, <2>4, <2>6 DEF OpSound, LockSound, TypeOK
  <2>8. StampSound'
    BY <2>1, <2>2, <2>3, <2>4, <2>5, <2>6 DEF StampSound, TypeOK, Positions
  <2>9. StatusIsLastEvent'
    BY <2>3, <2>4 DEF StatusIsLastEvent
  <2> QED
    BY <1>1, <2>7, <2>8, <2>9
<1>6. ASSUME NEW c \in Calls, CommitMove(c) PROVE CustomsInv'
  <2>1. /\ pc[c] = "commit" /\ locked = c /\ open[c] = {clock}
        /\ event[clock].type = op[c]
        /\ \A d \in Calls \ {c} : pc[d] \notin {"append", "commit"}
    BY <1>6 DEF CommitMove, At, LockSound, StampSound
  <2>2. /\ committed' = committed \cup {clock}
        /\ open' = [open EXCEPT ![c] = {}]
        /\ pc' = [pc EXCEPT ![c] = "idle"]
        /\ status' = op[c] /\ locked' = Nobody
        /\ UNCHANGED <<clock, event>>
        /\ \A d \in Calls \ {c} : op'[d] = op[d]
    BY <1>6, <2>1, Forgotten DEF CommitMove, Commit, At
  <2>3. OpSound' /\ LockSound'
    BY <2>1, <2>2 DEF OpSound, LockSound, TypeOK
  <2>4. StampSound'
    BY <2>1, <2>2 DEF StampSound, TypeOK, LogTypeOK
  <2>5. \A p \in committed : p <= clock /\ p \in Nat
    BY DEF TypeOK, LogTypeOK
  <2>6. clock \in committed' /\ clock \in Nat
    BY <2>2 DEF TypeOK, LogTypeOK
  <2>7. ASSUME NEW p \in committed', \A q \in committed' : q <= p PROVE p = clock
    BY <2>2, <2>5, <2>6, <2>7
  <2>8. StatusIsLastEvent'
    BY <2>1, <2>2, <2>6, <2>7 DEF StatusIsLastEvent
  <2> QED
    BY <1>1, <2>3, <2>4, <2>8
<1>7. ASSUME NEW c \in Calls, Fail(c) PROVE CustomsInv'
  <2>1. /\ pc' = [pc EXCEPT ![c] = "idle"]
        /\ locked' = IF locked = c THEN Nobody ELSE locked
        /\ UNCHANGED <<clock, committed, status, event>>
        /\ \A d \in Calls \ {c} : op'[d] = op[d]
    BY <1>7, Forgotten DEF Fail, Rollback, logVars
  <2>2. open' = [d \in Calls |-> IF d = c THEN {} ELSE open[d]]
    BY <1>7 DEF Fail, Rollback, logVars, TypeOK, LogTypeOK
  <2>3. OpSound' /\ LockSound'
    BY <2>1 DEF OpSound, LockSound, TypeOK
  <2>4. StampSound' /\ StatusIsLastEvent'
    BY <2>1, <2>2 DEF StampSound, StatusIsLastEvent, TypeOK
  <2> QED
    BY <1>1, <2>3, <2>4
<1>8. CASE InsertEntry \/ InsertLines \/ CreationFails \/ UNCHANGED vars
  BY <1>2, <1>8 DEF InsertEntry, InsertLines, CreationFails, vars, callVars
<1> QED
  BY <1>3, <1>4, <1>5, <1>6, <1>7, <1>8 DEF Next, CallStep

LEMMA CustomsInvariant == Spec => []CustomsInv
BY CustomsInit, CustomsStep, PTL DEF Spec

\* Every reachable state of a customs entry is well typed, for any number of
\* calls, lines and faults.
THEOREM CustomsTypeCorrect == Spec => []TypeOK
BY CustomsInvariant, PTL DEF CustomsInv

\* However many prepare, submit and outcome calls overlap or fail, customs_entries
\* always shows the status of the entry's last committed event.
THEOREM TableAgreesWithLog == Spec => []StatusIsLastEvent
BY CustomsInvariant, PTL DEF CustomsInv

-----------------------------------------------------------------------------
(* What the log holds.                                                     *)

\* A status is reached when an event of it has committed; DRAFT always is.
Reached(s) == s = "DRAFT" \/ \E p \in committed : event[p].type = s

InTransaction(c) == pc[c] \in {"update", "append", "commit"}

\* Whatever a call has read was reached, and a call in its transaction has passed
\* its checks on it.
ReadSound ==
  /\ Reached(status)
  /\ \A c \in Calls :
       /\ Reached(read[c])
       /\ InTransaction(c) => op[c] \in Transitions[read[c]]

SeenConfirmed(codes) == \A l \in Doubtful : codes[l] # "absent" => l \in confirmed

LinesSound ==
  \A c \in Calls :
    /\ InTransaction(c) /\ op[c] = "PREPARED" => SeenConfirmed(seen[c])
    /\ pc[c] = "commit" /\ op[c] = "PREPARED" => event[clock].codes = seen[c]

HistoryInv ==
  /\ CustomsInv
  /\ ReadSound
  /\ LinesSound
  /\ NoStepInvented
  /\ ConfirmedWhenPrepared

LEMMA HistoryInit == Init => HistoryInv
BY CustomsInit
   DEF Init, LogInit, HistoryInv, ReadSound, Reached, InTransaction, LinesSound,
       NoStepInvented, ConfirmedWhenPrepared

\* Steps that commit nothing keep the history, and those that leave a call's place
\* and what it has read alone keep what is said of it.
LEMMA QuietStep ==
  ASSUME HistoryInv, CustomsInv',
         UNCHANGED <<committed, status>>,
         \A p \in committed : event'[p] = event[p],
         confirmed \subseteq confirmed',
         \A c \in Calls :
           /\ read'[c] = read[c] \/ read'[c] = "DRAFT"
           /\ InTransaction(c)' => /\ InTransaction(c)
                                  /\ op'[c] = op[c] /\ read'[c] = read[c] /\ seen'[c] = seen[c]
           /\ pc'[c] = "commit" /\ op'[c] = "PREPARED" =>
                event'[clock'].codes = seen'[c]
  PROVE  HistoryInv'
<1>1. ReadSound'
  BY DEF HistoryInv, ReadSound, Reached, Calls
<1>2. LinesSound'
  BY DEF HistoryInv, LinesSound, SeenConfirmed
<1>3. NoStepInvented'
  BY DEF HistoryInv, NoStepInvented
<1>4. ConfirmedWhenPrepared'
  BY DEF HistoryInv, ConfirmedWhenPrepared
<1> QED
  BY <1>1, <1>2, <1>3, <1>4 DEF HistoryInv

\* A commit adds the event at clock, which sorts after every committed one.
LEMMA CommitHistory ==
  ASSUME HistoryInv, CustomsInv', NEW c \in Calls, CommitMove(c)
  PROVE  HistoryInv'
<1> USE DEF HistoryInv, Calls
<1>1. /\ pc[c] = "commit" /\ open[c] = {clock}
      /\ event[clock].type = op[c]
      /\ clock \in Positions
  BY DEF CommitMove, At, CustomsInv, StampSound
<1>2. /\ committed' = committed \cup {clock}
      /\ status' = op[c]
      /\ pc' = [pc EXCEPT ![c] = "idle"]
      /\ UNCHANGED <<clock, event, confirmed>> /\ read'[c] = "DRAFT"
      /\ \A d \in Calls \ {c} : op'[d] = op[d] /\ read'[d] = read[d] /\ seen'[d] = seen[d]
  BY <1>1, Forgotten DEF CommitMove, Commit, At, CustomsInv
<1>3. op[c] \in Transitions[read[c]] /\ Reached(read[c]) /\ read[c] \in EntryStatus
  BY <1>1 DEF ReadSound, InTransaction, CustomsInv, TypeOK
<1>4. \A p \in committed : p < clock
  <2>1. clock \in Nat /\ committed \subseteq 1 .. clock
    BY DEF CustomsInv, TypeOK, LogTypeOK
  <2>2. clock \notin committed
    BY <1>1 DEF CustomsInv, StampSound
  <2> HIDE DEF HistoryInv
  <2> QED
    BY <2>1, <2>2
<1>5. ReadSound'
  <2>1. Reached(status)'
    BY <1>1, <1>2 DEF Reached
  <2>2. ASSUME NEW d \in Calls
        PROVE  /\ Reached(read[d])'
               /\ InTransaction(d)' => op'[d] \in Transitions[read'[d]]
    <3>1. Reached(read[d])'
      BY <1>2 DEF ReadSound, Reached
    <3>2. InTransaction(d)' => InTransaction(d) /\ d # c
      BY <1>2 DEF InTransaction, CustomsInv, TypeOK
    <3> QED
      BY <1>2, <3>1, <3>2 DEF ReadSound
  <2> QED
    BY <2>1, <2>2 DEF ReadSound
<1>6. LinesSound'
  BY <1>2 DEF LinesSound, SeenConfirmed, InTransaction, CustomsInv, TypeOK
<1>7. NoStepInvented'
  <2>1. op[c] = "SUBMITTED" => \E q \in committed : event[q].type = "PREPARED"
    <3> SUFFICES ASSUME op[c] = "SUBMITTED" PROVE \E q \in committed : event[q].type = "PREPARED"
      OBVIOUS
    <3>1. read[c] \in {"PREPARED", "QUERY", "STOPPED"}
      BY <1>3 DEF Transitions, EntryStatus
    <3>2. PICK r \in committed : event[r].type = read[c]
      BY <1>3, <3>1 DEF Reached
    <3> QED
      BY <3>1, <3>2 DEF NoStepInvented
  <2>2. op[c] \in {"QUERY", "RELEASED", "STOPPED"} =>
          \E q \in committed : event[q].type = "SUBMITTED"
    <3> SUFFICES ASSUME op[c] \in {"QUERY", "RELEASED", "STOPPED"}
                 PROVE  \E q \in committed : event[q].type = "SUBMITTED"
      OBVIOUS
    <3>1. read[c] \in {"SUBMITTED", "QUERY"}
      BY <1>3 DEF Transitions, EntryStatus
    <3>2. PICK r \in committed : event[r].type = read[c]
      BY <1>3, <3>1 DEF Reached
    <3> QED
      BY <3>1, <3>2 DEF NoStepInvented
  <2> QED
    BY <1>1, <1>2, <1>4, <2>1, <2>2 DEF NoStepInvented
<1>8. ConfirmedWhenPrepared'
  <2>1. op[c] = "PREPARED" => SeenConfirmed(event[clock].codes)
    BY <1>1 DEF LinesSound, InTransaction
  <2> QED
    BY <1>1, <1>2, <2>1 DEF ConfirmedWhenPrepared, SeenConfirmed
<1> QED
  BY <1>5, <1>6, <1>7, <1>8

LEMMA HistoryStep == HistoryInv /\ [Next]_vars => HistoryInv'
<1> SUFFICES ASSUME HistoryInv, [Next]_vars PROVE HistoryInv'
  OBVIOUS
<1> USE DEF Calls
<1>0. TypeOK /\ CustomsInv /\ CustomsInv'
  BY CustomsStep DEF HistoryInv, CustomsInv
<1>1. CASE InsertEntry \/ InsertLines \/ CreationFails \/ UNCHANGED vars
  BY <1>0, <1>1, QuietStep
     DEF InsertEntry, InsertLines, CreationFails, vars, callVars, logVars,
         InTransaction, HistoryInv, LinesSound
<1>2. ASSUME NEW c \in Calls, Start(c) PROVE HistoryInv'
  <2>1. /\ UNCHANGED <<committed, clock, status, event, confirmed, read, seen>>
        /\ \A d \in Calls : InTransaction(d)' =>
             InTransaction(d) /\ op'[d] = op[d] /\ pc'[d] = pc[d]
    BY <1>0, <1>2 DEF Start, At, InTransaction, TypeOK, logVars
  <2>2. ReadSound'
    BY <2>1 DEF HistoryInv, ReadSound, Reached
  <2>3. LinesSound'
    BY <2>1 DEF HistoryInv, LinesSound, SeenConfirmed, InTransaction
  <2> QED
    BY <1>0, <2>1, <2>2, <2>3 DEF HistoryInv, NoStepInvented, ConfirmedWhenPrepared
<1>3. ASSUME NEW c \in Calls, ReadEntry(c) PROVE HistoryInv'
  <2>1. /\ UNCHANGED <<committed, clock, status, event, confirmed, op, seen>>
        /\ read' = [read EXCEPT ![c] = status]
        /\ \A d \in Calls : InTransaction(d)' => InTransaction(d) /\ d # c /\ pc'[d] = pc[d]
    BY <1>0, <1>3 DEF ReadEntry, At, InTransaction, TypeOK, logVars
  <2>2. ReadSound'
    BY <1>0, <2>1 DEF HistoryInv, ReadSound, Reached, TypeOK
  <2>3. LinesSound'
    BY <2>1 DEF HistoryInv, LinesSound, SeenConfirmed, InTransaction
  <2> QED
    BY <1>0, <2>1, <2>2, <2>3 DEF HistoryInv, NoStepInvented, ConfirmedWhenPrepared
<1>4. ASSUME NEW c \in Calls, ReadLines(c) PROVE HistoryInv'
  <2>1. /\ UNCHANGED <<committed, clock, status, event, confirmed, op, read>>
        /\ seen' = [seen EXCEPT ![c] = code]
        /\ \A d \in Calls \ {c} : pc'[d] = pc[d]
        /\ pc'[c] # "commit"
        /\ InTransaction(c)' => Allowed(c) /\ op[c] \in Moves
    BY <1>0, <1>4 DEF ReadLines, At, InTransaction, TypeOK, logVars
  <2>2. ReadSound'
    BY <2>1 DEF HistoryInv, ReadSound, Reached, Allowed, InTransaction
  <2>3. InTransaction(c)' /\ op[c] = "PREPARED" => SeenConfirmed(code)
    BY <2>1 DEF Allowed, Unconfirmed, SeenConfirmed
  <2>4. LinesSound'
    BY <1>0, <2>1, <2>3 DEF HistoryInv, LinesSound, SeenConfirmed, InTransaction, TypeOK
  <2> QED
    BY <1>0, <2>1, <2>2, <2>4 DEF HistoryInv, NoStepInvented, ConfirmedWhenPrepared
<1>5. ASSUME NEW c \in Calls, Update(c) PROVE HistoryInv'
  <2>1. /\ UNCHANGED <<committed, clock, status, event, op, read, seen, confirmed>>
    BY <1>5 DEF Update, logVars
  <2>2. \A d \in Calls : /\ InTransaction(d)' => InTransaction(d)
                         /\ pc'[d] = "commit" => pc[d] = "commit"
    BY <1>0, <1>5 DEF Update, At, InTransaction, TypeOK
  <2> QED
    BY <1>0, <2>1, <2>2, QuietStep DEF HistoryInv, LinesSound
<1>6. ASSUME NEW c \in Calls, AppendEvent(c) PROVE HistoryInv'
  <2>1. /\ UNCHANGED <<committed, status, op, read, seen, confirmed>>
        /\ clock' = clock + 1 /\ clock + 1 \in Positions
        /\ \A d \in Calls : InTransaction(d)' => InTransaction(d)
    BY <1>0, <1>6 DEF AppendEvent, Stamp, At, InTransaction, TypeOK, LogTypeOK, Positions
  <2>2. \A p \in committed : event'[p] = event[p]
    BY <1>0, <1>6 DEF AppendEvent, TypeOK, LogTypeOK, Positions
  <2>3. op[c] = "PREPARED" => event'[clock + 1].codes = seen[c]
    BY <1>0, <1>6, <2>1 DEF AppendEvent, Event, TypeOK
  <2>4. \A d \in Calls : pc'[d] = "commit" => d = c
    <3>1. locked = c
      BY <1>0, <1>6 DEF AppendEvent, At, CustomsInv, LockSound
    <3> QED
      BY <1>0, <1>6, <3>1 DEF AppendEvent, At, CustomsInv, LockSound, TypeOK
  <2> QED
    BY <1>0, <2>1, <2>2, <2>3, <2>4, QuietStep
<1>7. ASSUME NEW c \in Calls, CommitMove(c) PROVE HistoryInv'
  BY <1>0, <1>7, CommitHistory
<1>8. ASSUME NEW c \in Calls, Refuse(c) \/ Confirm(c) \/ Fail(c) PROVE HistoryInv'
  <2>1. /\ UNCHANGED <<committed, clock, status, event>>
        /\ confirmed \subseteq confirmed'
        /\ pc' = [pc EXCEPT ![c] = "idle"] /\ Forget(c)
    BY <1>8 DEF Refuse, Confirm, Fail, Rollback, At, logVars
  <2>2. \A d \in Calls : /\ InTransaction(d)' => InTransaction(d) /\ d # c
                         /\ pc'[d] = "commit" => pc[d] = "commit" /\ d # c
    BY <1>0, <2>1 DEF InTransaction, TypeOK
  <2>3. /\ read'[c] = "DRAFT"
        /\ \A d \in Calls \ {c} : op'[d] = op[d] /\ read'[d] = read[d] /\ seen'[d] = seen[d]
    BY <1>0, <2>1, Forgotten
  <2> QED
    BY <1>0, <2>1, <2>2, <2>3, QuietStep DEF HistoryInv, LinesSound
<1> QED
  BY <1>1, <1>2, <1>3, <1>4, <1>5, <1>6, <1>7, <1>8 DEF Next, CallStep

\* Calls that overlap may repeat or undo a step of an entry, but the log never
\* holds an outcome without a submission before it, nor a submission without a
\* preparation.
THEOREM NoStepIsInvented == Spec => []NoStepInvented
BY HistoryInit, HistoryStep, PTL DEF Spec, HistoryInv

\* No entry.prepared lists a doubtful line that no human has confirmed.
THEOREM HumanConfirmed == Spec => []ConfirmedWhenPrepared
BY HistoryInit, HistoryStep, PTL DEF Spec, HistoryInv

-----------------------------------------------------------------------------
(* A call that overlaps no other.                                          *)

\* Nothing happens before the entry is there.  What a lone call has read is what is
\* stored: no other call is under way, and the entry is not being created.
LoneSound ==
  /\ created = "no" => \A c \in Calls : ~UnderWay(c)
  /\ \A c \in Calls : UnderWay(c) /\ alone[c] =>
       /\ created # "entry"
       /\ \A d \in Calls \ {c} : ~UnderWay(d)
       /\ pc[c] # "entry" => read[c] = status
       /\ InTransaction(c) => seen[c] = code

LEMMA LoneStep ==
  ASSUME TypeOK, LoneSound, [Next]_vars
  PROVE  LoneSound'
<1> USE DEF UnderWay, InTransaction
<1>1. CASE InsertEntry \/ InsertLines \/ CreationFails \/ UNCHANGED vars
  <2>1. /\ UNCHANGED <<pc, alone, read, seen, status>>
        /\ created' # created => created \in {"no", "entry"} /\ created' # "no"
        /\ created' = created \/ created = "entry" \/ \A c \in Calls : ~UnderWay(c)
        /\ code' = code \/ created = "entry"
        /\ created' = "entry" => created \in {"no", "entry"}
    BY <1>1 DEF InsertEntry, InsertLines, CreationFails, vars, callVars, LoneSound
  <2> QED BY <2>1 DEF LoneSound
<1>2. ASSUME NEW c \in Calls, Start(c) PROVE LoneSound'
  <2> PICK others : others = {d \in Calls \ {c} : UnderWay(d)}
    OBVIOUS
  <2>1. /\ pc[c] = "idle" /\ created # "no" /\ pc' = [pc EXCEPT ![c] = "entry"]
        /\ UNCHANGED <<created, status, code, read, seen>>
    BY <1>2, Zenon DEF Start, At
  <2>2. alone' = [d \in Calls |-> CASE d = c -> others = {} /\ created # "entry"
                                    [] d \in others -> FALSE
                                    [] OTHER -> alone[d]]
    BY <1>2, Zenon DEF Start
  <2>3. /\ alone'[c] => others = {} /\ created # "entry"
        /\ \A d \in others : ~alone'[d]
    BY <2>2
  <2>4. \A d \in Calls \ {c} : pc'[d] = pc[d]
    BY <2>1 DEF TypeOK
  <2>5. \A d \in Calls : UnderWay(d)' /\ alone'[d] => d = c
    BY <2>3, <2>4
  <2> QED BY <2>1, <2>3, <2>4, <2>5 DEF LoneSound, TypeOK
<1>3. ASSUME NEW c \in Calls, ReadEntry(c) \/ ReadLines(c) PROVE LoneSound'
  <2>1. /\ UnderWay(c) /\ UNCHANGED <<created, alone, status, code>>
        /\ \A d \in Calls \ {c} : pc'[d] = pc[d] /\ read'[d] = read[d] /\ seen'[d] = seen[d]
    BY <1>3 DEF ReadEntry, ReadLines, At, TypeOK
  <2>2. CASE ReadEntry(c)
    <3>1. pc'[c] = "lines" /\ read'[c] = status
      BY <2>2 DEF ReadEntry, At, TypeOK
    <3> QED BY <2>1, <3>1 DEF LoneSound
  <2>3. CASE ReadLines(c)
    <3>1. pc[c] = "lines" /\ read'[c] = read[c] /\ seen'[c] = code
      BY <2>3 DEF ReadLines, At, TypeOK
    <3> QED BY <2>1, <3>1 DEF LoneSound
  <2> QED BY <1>3, <2>2, <2>3
<1>4. ASSUME NEW c \in Calls, Refuse(c) \/ Confirm(c) \/ CommitMove(c) \/ Fail(c)
      PROVE  LoneSound'
  <2>1. UnderWay(c) /\ pc' = [pc EXCEPT ![c] = "idle"] /\ created' = created /\ Forget(c)
    BY <1>4 DEF Refuse, Confirm, CommitMove, Fail, At
  <2>2. ~UnderWay(c)' /\ \A d \in Calls \ {c} : pc'[d] = pc[d] /\ alone'[d] = alone[d]
    BY <2>1, Forgotten DEF TypeOK
  <2>3. \A d \in Calls : UnderWay(d)' => ~alone[d]
    BY <2>1, <2>2 DEF LoneSound
  <2> QED BY <2>1, <2>2, <2>3 DEF LoneSound
<1>5. ASSUME NEW c \in Calls, Update(c) \/ AppendEvent(c) PROVE LoneSound'
  <2>1. /\ InTransaction(c) /\ UNCHANGED <<created, alone, read, seen, status, code>>
        /\ \A d \in Calls : UnderWay(d)' <=> UnderWay(d)
        /\ \A d \in Calls : InTransaction(d)' => InTransaction(d)
    BY <1>5 DEF Update, AppendEvent, At, TypeOK
  <2>2. \A d \in Calls : pc'[d] # "entry" => pc[d] # "entry"
    BY <1>5 DEF Update, AppendEvent, At, TypeOK
  <2> QED BY <2>1, <2>2 DEF LoneSound
<1> QED BY <1>1, <1>2, <1>3, <1>4, <1>5 DEF Next, CallStep

\* A prepare, submit or outcome call that overlaps no other moves the entry along the
\* transition table, and a lone prepare lists the lines that are stored.
THEOREM LoneCallIsSound == Spec => LoneCallSound
<1>1. Init => LoneSound
  BY DEF Init, LoneSound, UnderWay
<1>2. HistoryInv => TypeOK
  BY DEF HistoryInv, CustomsInv
<1>3. Spec => [](HistoryInv /\ LoneSound)
  <2>1. HistoryInv /\ LoneSound /\ [Next]_vars => (HistoryInv /\ LoneSound)'
    BY <1>2, LoneStep, HistoryStep
  <2> QED BY <1>1, <2>1, HistoryInit, PTL DEF Spec
<1>4. HistoryInv /\ LoneSound /\ [Next]_vars
        => [\A c \in Calls :
              CommitMove(c) /\ alone[c] =>
                /\ status' \in Transitions[status]
                /\ op[c] = "PREPARED" => seen[c] = code]_vars
  <2> SUFFICES ASSUME HistoryInv, LoneSound, NEW c \in Calls, CommitMove(c), alone[c]
               PROVE  status' \in Transitions[status] /\ (op[c] = "PREPARED" => seen[c] = code)
    OBVIOUS
  <2>1. pc[c] = "commit" /\ status' = op[c]
    BY DEF CommitMove, At
  <2>2. read[c] = status /\ seen[c] = code
    BY <2>1 DEF LoneSound, UnderWay, InTransaction
  <2>3. op[c] \in Transitions[read[c]]
    BY <2>1 DEF HistoryInv, ReadSound, InTransaction
  <2> QED BY <2>1, <2>2, <2>3
<1> QED BY <1>3, <1>4, PTL DEF LoneCallSound, Spec

-----------------------------------------------------------------------------
(* What the console prices and charges.                                    *)

IsSeq(s) == \E S : s \in Seq(S)

LEMMA SeqFacts ==
  ASSUME NEW s, IsSeq(s)
  PROVE  Len(s) \in Nat /\ DOMAIN s = 1 .. Len(s)
BY DEF IsSeq

LEMMA NoneIsSeq == IsSeq(<<>>) /\ Len(<<>>) = 0 /\ DOMAIN <<>> = {}
BY DEF IsSeq

LEMMA OneIsSeq == \A x : IsSeq(<<x>>) /\ Len(<<x>>) = 1 /\ DOMAIN <<x>> = {1} /\ <<x>>[1] = x
<1> SUFFICES ASSUME NEW x
             PROVE  IsSeq(<<x>>) /\ Len(<<x>>) = 1 /\ DOMAIN <<x>> = {1} /\ <<x>>[1] = x
  OBVIOUS
<1>1. <<x>> \in Seq({x})
  OBVIOUS
<1>2. IsSeq(<<x>>)
  BY <1>1 DEF IsSeq
<1>3. Len(<<x>>) = 1 /\ <<x>>[1] = x
  OBVIOUS
<1>4. DOMAIN <<x>> = 1 .. 1
  BY <1>1, <1>3, LenProperties
<1> QED BY <1>2, <1>3, <1>4

LEMMA Joined ==
  ASSUME NEW s, NEW t, IsSeq(s), IsSeq(t)
  PROVE  /\ IsSeq(s \o t) /\ Len(s \o t) = Len(s) + Len(t)
         /\ DOMAIN (s \o t) = 1 .. Len(s) + Len(t)
         /\ \A i \in DOMAIN s : (s \o t)[i] = s[i] /\ i \in DOMAIN (s \o t)
         /\ \A i \in DOMAIN (s \o t) : i \notin DOMAIN s =>
              i - Len(s) \in DOMAIN t /\ (s \o t)[i] = t[i - Len(s)]
         /\ \A i \in DOMAIN t : i + Len(s) \in DOMAIN (s \o t) /\ (s \o t)[i + Len(s)] = t[i]
<1>1. PICK S : s \in Seq(S)
  BY DEF IsSeq
<1>2. PICK T : t \in Seq(T)
  BY DEF IsSeq
<1>3. s \in Seq(S \cup T) /\ t \in Seq(S \cup T)
  BY <1>1, <1>2, SeqMonotonic
<1>4. /\ s \o t \in Seq(S \cup T)
      /\ Len(s \o t) = Len(s) + Len(t)
      /\ \A i \in 1 .. Len(s) + Len(t) : (s \o t)[i] = IF i <= Len(s) THEN s[i] ELSE t[i - Len(s)]
  BY <1>3, ConcatProperties
<1>5. /\ Len(s) \in Nat /\ DOMAIN s = 1 .. Len(s) /\ Len(t) \in Nat /\ DOMAIN t = 1 .. Len(t)
      /\ DOMAIN (s \o t) = 1 .. Len(s \o t)
  BY <1>3, <1>4
<1> QED BY <1>4, <1>5 DEF IsSeq

LEMMA RoundNat ==
  ASSUME NEW n \in Nat, NEW d \in Nat \ {0}
  PROVE  R!RoundHalfUp(n, d) \in Nat
BY DEF R!RoundHalfUp

LEMMA ShareNat ==
  ASSUME NEW n \in Nat, NEW bps \in Nat
  PROVE  R!Share(n, bps) \in Nat
<1>1. n * bps \in Nat
  OBVIOUS
<1> QED BY <1>1, RoundNat DEF R!Share

LEMMA VatNat ==
  ASSUME NEW n \in Nat, NEW bps \in Nat
  PROVE  R!LineVat(n, bps) \in Nat
<1>1. R!Abs(n) = n /\ R!Share(n, bps) \in Nat
  BY ShareNat DEF R!Abs
<1>2. R!LineVat(n, bps) = 1 * R!Share(n, bps)
  BY <1>1 DEF R!LineVat
<1> QED BY <1>1, <1>2

Currencies == DOMAIN R!FxHundredths

LEMMA FxNat == \A c \in Currencies : R!FxHundredths[c] \in Nat \ {0}
BY DEF Currencies, R!FxHundredths

LEMMA ToZarNat ==
  ASSUME NEW n \in Nat, NEW c \in Currencies
  PROVE  R!ToZar(n, c) \in Nat
<1>1. n * R!FxHundredths[c] \in Nat
  BY FxNat
<1> QED BY <1>1, RoundNat DEF R!ToZar

\* A line that can be charged: of the tenant t, for something, and not what the
\* journey charges.
GoodLine(l, t) ==
  /\ l.quantity \in Nat \ {0} /\ l.sellZar \in Nat
  /\ Canonical(l.code, t) \notin DOMAIN OnOf

GoodLines(ls, t) == IsSeq(ls) /\ \A i \in DOMAIN ls : GoodLine(ls[i], t)

LEMMA PriceLineGood ==
  ASSUME NEW t, NEW kind, Canonical(kind, t) \notin DOMAIN OnOf,
         NEW quantity \in Nat \ {0}, NEW each \in Nat, NEW c \in Currencies,
         NEW rule, rule.bps \in Nat, rule.floor \in Nat, NEW basis
  PROVE  LET line == R!PriceLine(kind, quantity, each, c, rule, basis)
         IN GoodLine(line, t) /\ line.sell \in Nat /\ line.currency = c
<1> DEFINE buy == each * quantity
           floor == R!RoundHalfUp(rule.floor * 100, R!FxHundredths[c])
           sell == R!Greater(R!RoundHalfUp(buy * (10000 + rule.bps), 10000), buy + floor)
           line == R!PriceLine(kind, quantity, each, c, rule, basis)
<1>1. buy \in Nat
  OBVIOUS
<1>2. floor \in Nat
  <2>1. rule.floor * 100 \in Nat /\ R!FxHundredths[c] \in Nat \ {0}
    BY FxNat
  <2> QED BY <2>1, RoundNat
<1>3. R!RoundHalfUp(buy * (10000 + rule.bps), 10000) \in Nat
  <2>1. 10000 + rule.bps \in Nat
    OBVIOUS
  <2>2. buy * (10000 + rule.bps) \in Nat
    <3> HIDE DEF buy
    <3> DEFINE b == 10000 + rule.bps
    <3>1. b \in Nat
      BY <2>1
    <3> HIDE DEF b
    <3>2. buy * b \in Nat
      BY <1>1, <3>1
    <3> QED BY <3>2 DEF b
  <2> QED BY <2>2, RoundNat
<1>4. sell \in Nat
  <2> HIDE DEF buy, floor
  <2> QED BY <1>1, <1>2, <1>3 DEF R!Greater
<1>5. R!ToZar(sell, c) \in Nat
  <2> HIDE DEF sell
  <2> QED BY <1>4, ToZarNat
<1>6. /\ line.code = kind /\ line.quantity = quantity /\ line.sell = sell /\ line.currency = c
      /\ line.sellZar = R!ToZar(sell, c)
  BY DEF R!PriceLine
<1> HIDE DEF sell, line
<1>7. GoodLine(line, t) /\ line.sell \in Nat /\ line.currency = c
  BY <1>4, <1>5, <1>6 DEF GoodLine
<1> QED BY <1>7 DEF line

LEMMA UpliftGood ==
  ASSUME NEW t, NEW kind, Canonical(kind, t) \notin DOMAIN OnOf, NEW bps \in Nat,
         NEW freight, freight.sell \in Nat, freight.currency \in Currencies
  PROVE  GoodLines(R!UpliftPrice(kind, bps, freight), t)
<1>1. CASE bps = 0
  BY <1>1, NoneIsSeq DEF R!UpliftPrice, GoodLines
<1>2. CASE bps # 0
  <2> DEFINE sell == R!Share(freight.sell, bps)
             line == [code |-> kind, quantity |-> 1, basis |-> "PER_SHIPMENT", buy |-> 0,
                      sell |-> sell, currency |-> freight.currency, buyZar |-> 0,
                      sellZar |-> R!ToZar(sell, freight.currency)]
  <2>1. R!UpliftPrice(kind, bps, freight) = <<line>>
    BY <1>2 DEF R!UpliftPrice
  <2>2. sell \in Nat
    BY ShareNat
  <2>3. GoodLine(line, t)
    <3>1. line.code = kind /\ line.quantity = 1 /\ line.sellZar = R!ToZar(sell, freight.currency)
      OBVIOUS
    <3>2. R!ToZar(sell, freight.currency) \in Nat
      <4> HIDE DEF sell
      <4> QED BY <2>2, ToZarNat
    <3> HIDE DEF line
    <3> QED BY <3>1, <3>2 DEF GoodLine
  <2> HIDE DEF line
  <2> QED BY <2>1, <2>3, OneIsSeq DEF GoodLines
<1> QED BY <1>1, <1>2

LEMMA LinesJoined ==
  ASSUME NEW t, NEW a, NEW b, GoodLines(a, t), GoodLines(b, t)
  PROVE  GoodLines(a \o b, t)
<1>1. IsSeq(a) /\ IsSeq(b)
  BY DEF GoodLines
<1>2. IsSeq(a \o b)
  BY <1>1, Joined
<1>3. ASSUME NEW i \in DOMAIN (a \o b) PROVE GoodLine((a \o b)[i], t)
  <2>1. CASE i \in DOMAIN a
    BY <1>1, <2>1, Joined DEF GoodLines
  <2>2. CASE i \notin DOMAIN a
    <3>1. i - Len(a) \in DOMAIN b /\ (a \o b)[i] = b[i - Len(a)]
      BY <1>1, <2>2, Joined
    <3> QED BY <3>1 DEF GoodLines
  <2> QED BY <2>1, <2>2
<1> QED BY <1>2, <1>3 DEF GoodLines

\* What a card is, and what a request and a rule are.
GoodCard(c, t) ==
  /\ c.buy \in Nat /\ c.currency \in Currencies
  /\ c.surcharges \in Seq([code : STRING, basis : STRING, amount : Nat, currency : Currencies])
  /\ \A kind \in CodesOf(c) : Canonical(kind, t) \notin DOMAIN OnOf

GoodRule(r) == r.bps \in Nat /\ r.floor \in Nat

GoodRequest(req) ==
  /\ req.quantity \in Nat \ {0}
  /\ req.cargo \in DOMAIN R!CargoTypes /\ req.urgency \in DOMAIN R!Urgencies

LEMMA SurchargeGood ==
  ASSUME NEW t, NEW card, GoodCard(card, t), NEW rule, GoodRule(rule), NEW req, GoodRequest(req),
         NEW i \in DOMAIN card.surcharges
  PROVE  GoodLine(R!SurchargePrice(card.surcharges[i], card, rule, req), t)
<1> DEFINE s == card.surcharges[i]
<1>1. s.amount \in Nat /\ s.currency \in Currencies /\ Canonical(s.code, t) \notin DOMAIN OnOf
  <2>1. s \in [code : STRING, basis : STRING, amount : Nat, currency : Currencies]
    <3>1. i \in 1 .. Len(card.surcharges)
      BY DEF GoodCard
    <3> QED BY <3>1, ElementOfSeq DEF GoodCard
  <2>2. s.code \in CodesOf(card)
    BY DEF CodesOf
  <2> HIDE DEF s
  <2> QED BY <2>1, <2>2 DEF GoodCard
<1> HIDE DEF s
<1>2. R!Share(card.buy * req.quantity, s.amount) \in Nat
  <2>1. card.buy * req.quantity \in Nat
    BY DEF GoodCard, GoodRequest
  <2> QED BY <1>1, <2>1, ShareNat
<1>3. \A basis : \A quantity \in Nat \ {0}, each \in Nat :
        GoodLine(R!PriceLine(s.code, quantity, each, s.currency, rule, basis), t)
  BY <1>1, PriceLineGood DEF GoodRule
<1>4. \E basis : \E quantity \in Nat \ {0}, each \in Nat :
        R!SurchargePrice(s, card, rule, req)
          = R!PriceLine(s.code, quantity, each, s.currency, rule, basis)
  <2>1. CASE s.basis = "PERCENT_OF_FREIGHT"
    <3>1. R!SurchargePrice(s, card, rule, req)
          = R!PriceLine(s.code, 1, R!Share(card.buy * req.quantity, s.amount), s.currency, rule, "PERCENTAGE")
      BY <2>1 DEF R!SurchargePrice
    <3> QED BY <1>2, <3>1
  <2>2. CASE s.basis = "PER_CONTAINER"
    <3>1. R!SurchargePrice(s, card, rule, req)
          = R!PriceLine(s.code, req.quantity, s.amount, s.currency, rule, "PER_CONTAINER")
      BY <2>2 DEF R!SurchargePrice
    <3> QED BY <1>1, <3>1 DEF GoodRequest
  <2>3. CASE s.basis = "PER_BL"
    <3>1. R!SurchargePrice(s, card, rule, req)
          = R!PriceLine(s.code, 1, s.amount, s.currency, rule, "PER_DOCUMENT")
      BY <2>3 DEF R!SurchargePrice
    <3> QED BY <1>1, <3>1
  <2>4. CASE s.basis \notin {"PERCENT_OF_FREIGHT", "PER_CONTAINER", "PER_BL"}
    <3>1. R!SurchargePrice(s, card, rule, req)
          = R!PriceLine(s.code, 1, s.amount, s.currency, rule, "PER_SHIPMENT")
      BY <2>4 DEF R!SurchargePrice
    <3> QED BY <1>1, <3>1
  <2> QED BY <2>1, <2>2, <2>3, <2>4
<1> QED BY <1>3, <1>4 DEF s

LEMMA CardGood ==
  ASSUME NEW t, NEW card, GoodCard(card, t), NEW rule, GoodRule(rule), NEW req, GoodRequest(req)
  PROVE  GoodLines(R!PriceCard(card, rule, req), t)
<1> DEFINE freight == R!PriceLine("FRT", req.quantity, card.buy, card.currency, rule, "PER_CONTAINER")
           more == [i \in DOMAIN card.surcharges |-> R!SurchargePrice(card.surcharges[i], card, rule, req)]
           handling == R!UpliftPrice("HND", R!CargoTypes[req.cargo], freight)
           service == R!UpliftPrice("SVC", R!Urgencies[req.urgency].bps, freight)
<1>1. \A kind \in {"FRT", "HND", "SVC"} : Canonical(kind, t) \notin DOMAIN OnOf
  BY DEF GoodCard, CodesOf
<1>2. GoodLine(freight, t) /\ freight.sell \in Nat /\ freight.currency \in Currencies
  <2>1. /\ req.quantity \in Nat \ {0} /\ card.buy \in Nat /\ card.currency \in Currencies
        /\ rule.bps \in Nat /\ rule.floor \in Nat
    BY DEF GoodCard, GoodRequest, GoodRule
  <2> HIDE DEF freight
  <2> QED BY <1>1, <2>1, PriceLineGood DEF freight
<1>3. GoodLines(<<freight>>, t)
  <2> HIDE DEF freight
  <2> QED BY <1>2, OneIsSeq DEF GoodLines
<1>4. GoodLines(more, t)
  <2>1. Len(card.surcharges) \in Nat /\ DOMAIN card.surcharges = 1 .. Len(card.surcharges)
    BY DEF GoodCard
  <2>2. more \in Seq({more[i] : i \in DOMAIN more})
    BY <2>1
  <2>3. \A i \in DOMAIN more : GoodLine(more[i], t)
    BY SurchargeGood
  <2> HIDE DEF more
  <2> QED BY <2>2, <2>3 DEF GoodLines, IsSeq
<1>5. GoodLines(handling, t)
  <2>1. R!CargoTypes[req.cargo] \in Nat
    BY DEF GoodRequest, R!CargoTypes
  <2> HIDE DEF freight
  <2> QED BY <1>1, <1>2, <2>1, UpliftGood
<1>6. GoodLines(service, t)
  <2>1. R!Urgencies[req.urgency].bps \in Nat
    BY DEF GoodRequest, R!Urgencies
  <2> HIDE DEF freight
  <2> QED BY <1>1, <1>2, <2>1, UpliftGood
<1>7. R!PriceCard(card, rule, req) = <<freight>> \o more \o handling \o service
  BY DEF R!PriceCard
<1> HIDE DEF freight, more, handling, service
<1> QED BY <1>3, <1>4, <1>5, <1>6, <1>7, LinesJoined

\* The rule that names the most, and of those the newest, exists.
LEMMA RuleFound ==
  ASSUME NEW rules, IsFiniteSet(rules), NEW req,
         \A r \in rules : /\ GoodRule(r) /\ r.created \in Nat
                          /\ \A s \in rules : r.created = s.created => r = s
  PROVE  GoodRule(R!ResolveRule(rules, req))
<1> DEFINE fitting == {r \in rules : R!RuleFits(r, req)}
           Best(r) == \A s \in fitting \ {r} :
                        R!Dims(r) > R!Dims(s) \/ (R!Dims(r) = R!Dims(s) /\ r.created > s.created)
<1>1. CASE fitting = {}
  <2>1. R!ResolveRule(rules, req) = [bps |-> 1800, floor |-> 0]
    BY <1>1 DEF R!ResolveRule
  <2> QED BY <2>1 DEF GoodRule
<1>2. CASE fitting # {}
  <2>1. IsFiniteSet(fitting)
    BY FS_Subset
  <2>2. \A r \in fitting : R!Dims(r) \in Nat
    <3>1. \A r : R!Dims(r) \in Nat
      <4> SUFFICES ASSUME NEW r PROVE R!Dims(r) \in Nat
        OBVIOUS
      <4> DEFINE four == {"customer", "origin", "destination", "mode"}
      <4>1. IsFiniteSet(four)
        <5>1. four = ((({} \cup {"customer"}) \cup {"origin"}) \cup {"destination"}) \cup {"mode"}
          OBVIOUS
        <5> HIDE DEF four
        <5> QED BY <5>1, FS_EmptySet, FS_AddElement
      <4> DEFINE stated == {f \in four : r[f] # R!Nothing}
      <4>2. Cardinality(stated) \in Nat
        <5>1. stated \in SUBSET four
          OBVIOUS
        <5> HIDE DEF stated, four
        <5> QED BY <4>1, <5>1, FS_Subset, FS_CardinalityType
      <4>3. R!Dims(r) = Cardinality(stated)
        BY Zenon DEF R!Dims, R!Cardinality, Cardinality
      <4> HIDE DEF stated
      <4> QED BY <4>2, <4>3
    <3> QED BY <3>1
  <2> DEFINE dims == [r \in fitting |-> R!Dims(r)]
             top(x) == {r \in fitting : R!Dims(r) = R!Dims(x)}
             ages == [r \in fitting |-> r.created]
  <2>3. PICK x \in fitting : \A s \in fitting : R!Dims(s) <= R!Dims(x)
    <3>1. \A r \in fitting : dims[r] \in Int
      BY <2>2
    <3>2. \E r \in fitting : \A s \in fitting : dims[s] <= dims[r]
      <4> HIDE DEF dims, fitting
      <4> QED BY <1>2, <2>1, <3>1, Greatest
    <3> QED BY <3>2
  <2>4. PICK r \in top(x) : \A s \in top(x) : s.created <= r.created
    <3>1. IsFiniteSet(top(x)) /\ top(x) # {} /\ \A s \in top(x) : ages[s] \in Int
      BY <2>1, FS_Subset
    <3>2. \E r \in top(x) : \A s \in top(x) : ages[s] <= ages[r]
      <4> HIDE DEF ages, top, fitting
      <4> QED BY <3>1, Greatest
    <3> QED BY <3>2
  <2>5. Best(r)
    <3> SUFFICES ASSUME NEW s \in fitting \ {r}
                 PROVE  R!Dims(r) > R!Dims(s) \/ (R!Dims(r) = R!Dims(s) /\ r.created > s.created)
      OBVIOUS
    <3>1. R!Dims(r) = R!Dims(x) /\ R!Dims(s) <= R!Dims(x) /\ r \in fitting
      BY <2>3, <2>4
    <3>2. R!Dims(r) \in Nat /\ R!Dims(s) \in Nat
      BY <2>2, <3>1
    <3>3. CASE R!Dims(s) = R!Dims(x)
      <4>1. s \in top(x) /\ s.created <= r.created
        BY <2>4, <3>3
      <4>2. s.created # r.created /\ s.created \in Nat /\ r.created \in Nat
        BY <3>1
      <4> QED BY <3>1, <3>3, <4>1, <4>2
    <3>4. CASE R!Dims(s) # R!Dims(x)
      BY <3>1, <3>2, <3>4
    <3> QED BY <3>3, <3>4
  <2>6. R!ResolveRule(rules, req) = CHOOSE q \in fitting : Best(q)
    BY <1>2 DEF R!ResolveRule
  <2>7. (CHOOSE q \in fitting : Best(q)) \in fitting
    <3>1. r \in fitting
      BY <2>4
    <3> HIDE DEF fitting, Best
    <3> QED BY <2>5, <3>1, Zenon
  <2> QED BY <2>6, <2>7
<1> QED BY <1>1, <1>2

\* The cheapest card that fits, and of those the first, exists.
LEMMA PriceGood ==
  ASSUME NEW t, NEW cards, IsFiniteSet(cards), NEW rules, IsFiniteSet(rules), NEW req, GoodRequest(req),
         \A r \in rules : /\ GoodRule(r) /\ r.created \in Nat
                          /\ \A s \in rules : r.created = s.created => r = s,
         \A c \in cards : /\ GoodCard(c, t) /\ c.id \in Nat
                          /\ \A d \in cards : c.id = d.id => c = d,
         R!Quotable(cards, req)
  PROVE  GoodLines(R!Price(cards, rules, req), t)
<1> DEFINE fit == R!SelectRateCards(cards, req)
           First(c) == \A d \in fit \ {c} : c.buy < d.buy \/ (c.buy = d.buy /\ c.id < d.id)
           buys == [c \in fit |-> -c.buy]
           ids == [c \in fit |-> -c.id]
           cheap(x) == {c \in fit : c.buy = x.buy}
<1>1. fit # {} /\ fit \in SUBSET cards
  BY DEF R!Quotable, R!SelectRateCards
<1>2. IsFiniteSet(fit) /\ \A c \in fit : c.buy \in Nat /\ c.id \in Nat
  BY <1>1, FS_Subset DEF GoodCard
<1> HIDE DEF fit
<1>3. PICK x \in fit : \A d \in fit : x.buy <= d.buy
  <2>1. \A c \in fit : buys[c] \in Int /\ buys[c] = -c.buy
    BY <1>2
  <2>2. \E c \in fit : \A d \in fit : buys[d] <= buys[c]
    <3> HIDE DEF buys
    <3> QED BY <1>1, <1>2, <2>1, Greatest
  <2> HIDE DEF buys
  <2> QED BY <1>2, <2>1, <2>2
<1>4. PICK c \in cheap(x) : \A d \in cheap(x) : c.id <= d.id
  <2>1. \A d \in cheap(x) : ids[d] \in Int /\ ids[d] = -d.id /\ d.id \in Nat
    BY <1>2
  <2>2. IsFiniteSet(cheap(x)) /\ cheap(x) # {}
    BY <1>2, FS_Subset
  <2>3. \E d \in cheap(x) : \A e \in cheap(x) : ids[e] <= ids[d]
    <3> HIDE DEF ids, cheap
    <3> QED BY <2>1, <2>2, Greatest
  <2> HIDE DEF ids, cheap
  <2> QED BY <2>1, <2>3
<1>5. First(c)
  <2> SUFFICES ASSUME NEW d \in fit \ {c}
               PROVE  c.buy < d.buy \/ (c.buy = d.buy /\ c.id < d.id)
    OBVIOUS
  <2>1. c \in fit /\ c.buy = x.buy /\ x.buy <= d.buy
    BY <1>3, <1>4
  <2>2. c.id # d.id
    BY <1>1, <2>1
  <2>3. CASE d.buy = x.buy
    <3>1. c.id <= d.id
      BY <1>4, <2>3
    <3> QED BY <1>2, <2>1, <2>2, <2>3, <3>1
  <2> QED BY <1>2, <2>1, <2>3
<1> DEFINE card == CHOOSE q \in fit : First(q)
<1>6. card \in fit
  <2>1. c \in fit
    BY <1>4
  <2> HIDE DEF First
  <2> QED BY <1>5, <2>1, Zenon
<1>7. R!Price(cards, rules, req) = R!PriceCard(card, R!ResolveRule(rules, req), req)
  BY Zenon DEF R!Price, fit
<1>8. GoodRule(R!ResolveRule(rules, req))
  BY RuleFound
<1>9. GoodCard(card, t)
  BY <1>1, <1>6
<1> HIDE DEF card
<1> QED BY <1>7, <1>8, <1>9, CardGood

-----------------------------------------------------------------------------
(* The invariant of the console's books.                                   *)

IsCharge(c) ==
  c = [on |-> c.on, code |-> c.code, match |-> c.match, quantity |-> c.quantity, unit |-> c.unit,
       sell |-> c.sell, buy |-> c.buy, currency |-> c.currency, basis |-> c.basis,
       provenance |-> c.provenance, vatBps |-> c.vatBps, contractRef |-> c.contractRef,
       vendorRef |-> c.vendorRef, vendor |-> c.vendor, invoice |-> c.invoice,
       disputed |-> c.disputed]

\* What the journey charges carries the trigger it is charged by.
ChargeSound(c) ==
  /\ IsCharge(c) /\ c.sell \in Nat /\ c.vatBps \in Nat
  /\ c.code \in DOMAIN OnOf => c.on = OnOf[c.code]

\* Wherever there is a charge there is one of the same invoice that costs something.
ChargesSound ==
  /\ IsSeq(charges)
  /\ \A i \in DOMAIN charges :
       /\ ChargeSound(charges[i]) /\ charges[i].invoice \in 0 .. Len(invoices)
       /\ \E j \in DOMAIN charges : charges[j].invoice = charges[i].invoice /\ charges[j].sell > 0
  /\ \A i, j \in DOMAIN charges :
       charges[i].code = charges[j].code /\ charges[i].code \in DOMAIN OnOf => i = j

IsShipment(s) ==
  s = [tenant |-> s.tenant, lane |-> s.lane, step |-> s.step, events |-> s.events, lines |-> s.lines,
       boxes |-> s.boxes, discharged |-> s.discharged, gateOut |-> s.gateOut, emptied |-> s.emptied]

IsEntry(e) ==
  e = [status |-> e.status, coded |-> e.coded, rate |-> e.rate, confirmed |-> e.confirmed,
       late |-> e.late]

ConsoleShape ==
  /\ form = [lane |-> form.lane, priced |-> form.priced, prices |-> form.prices]
  /\ form.lane \in DOMAIN Lanes
  /\ hours = [now |-> hours.now, ticks |-> hours.ticks] /\ hours.now \in Nat
  /\ IsShipment(shipment) /\ shipment.boxes \in Nat /\ shipment.discharged \in Int
  /\ Booked => shipment.boxes > 0
  /\ ~Booked => charges = <<>> /\ entry = NoEntry
  /\ IsEntry(entry) /\ entry.rate \in Nat
  /\ entry # NoEntry => entry.status \in {"DRAFT", "SUBMITTED", "RELEASED"}

\* The clearance is accrued once its trigger has been, and the duty with it unless
\* there was no entry to charge it for.
ClearedSound ==
  /\ entry = NoEntry => AccruedFor("DTY") = {}
  /\ \A i \in AccruedFor("DTY") : charges[i].sell = Payable(entry)
  /\ entry.status = "RELEASED" => Accrued("entry.released")
  /\ entry # NoEntry /\ Accrued("entry.released") /\ Payable(entry) > 0
       => entry.late \/ AccruedFor("DTY") # {}

InvoiceRecords ==
  [status : {"ISSUED", "PART_PAID", "OVERDUE", "PAID"}, subtotal : Nat, vat : Nat,
   total : Nat \ {0}, due : Nat]

InvoicesSound ==
  /\ invoices \in Seq(InvoiceRecords)
  /\ \A p \in payments : p.invoice \in DOMAIN invoices
  /\ InvoicesFoot
  /\ SettledByTotal

IsFinding(f) == f = [variance |-> f.variance, status |-> f.status]

FindingsSound ==
  /\ audited = [found |-> audited.found, count |-> audited.count, decided |-> audited.decided]
  /\ exceptions = [key \in DOMAIN exceptions |-> exceptions[key]]
  /\ \A key \in DOMAIN exceptions : IsFinding(exceptions[key])
  /\ FindingsKept

BooksInv ==
  /\ ConsoleShape
  /\ ChargesSound
  /\ ClearedSound
  /\ InvoicesSound
  /\ FindingsSound

\* What an entry costs, as the sum of a function over the places of its lines.
LEMMA CostIs ==
  \A line : R!EntryPayable(<<line>>)
              = SumFunctionOnSet([i \in DOMAIN <<line>> |-> R!DutyForLine(<<line>>[i]).duty
                                                          + R!DutyForLine(<<line>>[i]).vat],
                                 DOMAIN <<line>>)
<1> SUFFICES ASSUME NEW line
             PROVE  R!EntryPayable(<<line>>)
                      = SumFunctionOnSet([i \in DOMAIN <<line>> |-> R!DutyForLine(<<line>>[i]).duty
                                                                  + R!DutyForLine(<<line>>[i]).vat],
                                         DOMAIN <<line>>)
  OBVIOUS
<1> DEFINE costs == [i \in DOMAIN <<line>> |-> R!DutyForLine(<<line>>[i]).duty
                                              + R!DutyForLine(<<line>>[i]).vat]
<1>1. R!EntryPayable(<<line>>) = R!SumFunctionOnSet(costs, DOMAIN costs)
  BY Zenon DEF R!EntryPayable, R!Total, R!SumFunction
<1>2. DOMAIN costs = DOMAIN <<line>>
  OBVIOUS
<1> HIDE DEF costs
<1>3. \A S : R!SumFunctionOnSet(costs, S) = SumFunctionOnSet(costs, S)
  BY Zenon DEF R!SumFunctionOnSet, R!FoldFunctionOnSet, R!MapThenFoldSet, SumFunctionOnSet,
               FoldFunctionOnSet, MapThenFoldSet
<1> QED BY <1>1, <1>2, <1>3 DEF costs

LEMMA OneLine ==
  ASSUME NEW line, R!DutyForLine(line).duty \in Nat, R!DutyForLine(line).vat \in Nat
  PROVE  R!EntryPayable(<<line>>) \in Nat
<1> DEFINE costs == [i \in DOMAIN <<line>> |-> R!DutyForLine(<<line>>[i]).duty
                                              + R!DutyForLine(<<line>>[i]).vat]
<1>1. DOMAIN <<line>> = {1} /\ <<line>>[1] = line
  BY OneIsSeq
<1>2. \A i \in {1} : costs[i] \in Nat
  BY <1>1
<1>3. R!EntryPayable(<<line>>) = SumFunctionOnSet(costs, {1})
  BY <1>1, CostIs
<1> HIDE DEF costs
<1>4. IsFiniteSet({1})
  BY FS_Singleton
<1> QED BY <1>2, <1>3, <1>4, SumNat

LEMMA DutyNat ==
  ASSUME NEW line, line.value \in Nat, line.rateBps \in Nat, ~line.sacu
  PROVE  R!DutyForLine(line).duty \in Nat /\ R!DutyForLine(line).vat \in Nat
<1> DEFINE tenth == 1000
           rate == 1500
           duty == R!Share(line.value, line.rateBps)
           atv == line.value + duty + R!Share(line.value, tenth)
<1>1. tenth \in Nat /\ rate \in Nat
  OBVIOUS
<1>2. R!DutyForLine(line).duty = duty /\ R!DutyForLine(line).vat = R!Share(atv, rate)
  BY DEF R!DutyForLine
<1> HIDE DEF tenth, rate
<1>3. duty \in Nat /\ R!Share(line.value, tenth) \in Nat
  BY <1>1, ShareNat
<1>4. atv \in Nat
  <2> HIDE DEF duty
  <2> QED BY <1>3
<1>5. R!Share(atv, rate) \in Nat
  <2> HIDE DEF atv
  <2> QED BY <1>1, <1>4, ShareNat
<1> HIDE DEF duty, atv
<1> QED BY <1>2, <1>3, <1>5

LEMMA PayableNat ==
  ASSUME shipment.boxes \in Nat, NEW e, e.rate \in Nat
  PROVE  Payable(e) \in Nat
<1>1. CASE e = NoEntry
  BY <1>1 DEF Payable
<1>2. CASE e # NoEntry
  <2> DEFINE boxes == 45 + 38 * shipment.boxes
             line == [value |-> GoodsValue * boxes, rateBps |-> e.rate, sacu |-> FALSE]
  <2>1. boxes \in Nat /\ GoodsValue \in Nat
    BY SeededBook
  <2> HIDE DEF boxes
  <2>2. line.value \in Nat /\ line.rateBps \in Nat /\ ~line.sacu
    <3>1. GoodsValue * boxes \in Nat
      BY <2>1
    <3> QED BY <3>1
  <2>3. Payable(e) = R!EntryPayable(<<line>>)
    BY <1>2 DEF Payable, boxes
  <2> HIDE DEF line
  <2> QED BY <2>2, <2>3, DutyNat, OneLine
<1> QED BY <1>1, <1>2

-----------------------------------------------------------------------------
(* What is charged at once.                                                *)

Charged(c, on, kind, sell) ==
  /\ ChargeSound(c) /\ c.on = on /\ c.code = kind /\ c.sell = sell
  /\ c.invoice = 0 /\ ~c.disputed

LEMMA ChargeIs ==
  ASSUME NEW on, NEW kind, NEW quantity, NEW unit, NEW buy, NEW own, NEW refs,
         unit * quantity \in Nat, kind \in DOMAIN OnOf => on = OnOf[kind]
  PROVE  Charged(Charge(on, kind, quantity, unit, buy, own, refs), on, kind, unit * quantity)
<1> DEFINE c == Charge(on, kind, quantity, unit, buy, own, refs)
<1>1. /\ c.on = on /\ c.code = kind /\ c.sell = unit * quantity
      /\ c.invoice = 0 /\ ~c.disputed
  BY DEF Charge
<1>2. IsCharge(c)
  BY DEF Charge, IsCharge
<1>3. c.vatBps \in Nat
  <2>1. c.vatBps = IF R!CodeTable[kind].tax THEN 1500 ELSE 0
    BY DEF Charge
  <2> HIDE DEF c
  <2> QED BY <2>1
<1> HIDE DEF c
<1>4. ChargeSound(c)
  BY <1>1, <1>2, <1>3 DEF ChargeSound
<1> QED BY <1>1, <1>4 DEF c, Charged

\* Charges of one trigger that no invoice has, none of them twice.
Batch(b, on) ==
  /\ IsSeq(b)
  /\ \A i \in DOMAIN b : ChargeSound(b[i]) /\ b[i].on = on /\ b[i].invoice = 0 /\ ~b[i].disputed
  /\ \A i, j \in DOMAIN b : b[i].code = b[j].code /\ b[i].code \in DOMAIN OnOf => i = j

Costly(b) == \E j \in DOMAIN b : b[j].sell > 0

LEMMA NoBatch == \A on : Batch(<<>>, on)
BY NoneIsSeq DEF Batch

LEMMA OneBatch ==
  ASSUME NEW on, NEW c, ChargeSound(c), c.on = on, c.invoice = 0, ~c.disputed
  PROVE  Batch(<<c>>, on) /\ (c.sell > 0 => Costly(<<c>>))
BY OneIsSeq DEF Batch, Costly

LEMMA BatchJoined ==
  ASSUME NEW on, NEW a, NEW b, Batch(a, on), Batch(b, on),
         \A i \in DOMAIN a, j \in DOMAIN b : a[i].code \in DOMAIN OnOf => a[i].code # b[j].code
  PROVE  Batch(a \o b, on) /\ (Costly(a) \/ Costly(b) => Costly(a \o b))
<1> DEFINE ab == a \o b
<1>1. IsSeq(a) /\ IsSeq(b)
  BY DEF Batch
<1>2. /\ IsSeq(ab)
      /\ \A i \in DOMAIN a : ab[i] = a[i] /\ i \in DOMAIN ab
      /\ \A i \in DOMAIN ab : i \notin DOMAIN a => i - Len(a) \in DOMAIN b /\ ab[i] = b[i - Len(a)]
      /\ \A i \in DOMAIN b : i + Len(a) \in DOMAIN ab /\ ab[i + Len(a)] = b[i]
  <2>1. IsSeq(ab)
    BY <1>1, Joined
  <2>2. \A i \in DOMAIN a : ab[i] = a[i] /\ i \in DOMAIN ab
    BY <1>1, Joined
  <2>3. \A i \in DOMAIN ab : i \notin DOMAIN a => i - Len(a) \in DOMAIN b /\ ab[i] = b[i - Len(a)]
    BY <1>1, Joined
  <2>4. \A i \in DOMAIN b : i + Len(a) \in DOMAIN ab /\ ab[i + Len(a)] = b[i]
    BY <1>1, Joined
  <2> HIDE DEF ab
  <2> QED BY <2>1, <2>2, <2>3, <2>4
<1>3. Len(a) \in Nat /\ \A i \in DOMAIN ab : i \in Nat
  BY <1>1, <1>2, SeqFacts
<1> HIDE DEF ab
<1>4. ASSUME NEW i \in DOMAIN ab
      PROVE  ChargeSound(ab[i]) /\ ab[i].on = on /\ ab[i].invoice = 0 /\ ~ab[i].disputed
  <2>1. CASE i \in DOMAIN a
    BY <1>2, <2>1 DEF Batch
  <2>2. CASE i \notin DOMAIN a
    BY <1>2, <2>2 DEF Batch
  <2> QED BY <2>1, <2>2
<1>5. ASSUME NEW i \in DOMAIN ab, NEW j \in DOMAIN ab,
             ab[i].code = ab[j].code, ab[i].code \in DOMAIN OnOf
      PROVE  i = j
  <2>1. CASE i \in DOMAIN a /\ j \in DOMAIN a
    BY <1>2, <1>5, <2>1 DEF Batch
  <2>2. CASE i \in DOMAIN a /\ j \notin DOMAIN a
    <3>1. ab[i] = a[i] /\ j - Len(a) \in DOMAIN b /\ ab[j] = b[j - Len(a)]
      BY <1>2, <2>2
    <3> QED BY <1>5, <2>2, <3>1
  <2>3. CASE i \notin DOMAIN a /\ j \in DOMAIN a
    <3>1. ab[j] = a[j] /\ i - Len(a) \in DOMAIN b /\ ab[i] = b[i - Len(a)]
      BY <1>2, <2>3
    <3> QED BY <1>5, <2>3, <3>1
  <2>4. CASE i \notin DOMAIN a /\ j \notin DOMAIN a
    <3>1. /\ i - Len(a) \in DOMAIN b /\ ab[i] = b[i - Len(a)]
          /\ j - Len(a) \in DOMAIN b /\ ab[j] = b[j - Len(a)]
      BY <1>2, <2>4
    <3>2. i - Len(a) = j - Len(a)
      BY <1>5, <3>1 DEF Batch
    <3> QED BY <1>3, <3>2
  <2> QED BY <2>1, <2>2, <2>3, <2>4
<1>6. Costly(a) \/ Costly(b) => Costly(ab)
  BY <1>2 DEF Costly
<1>7. Batch(ab, on)
  BY <1>2, <1>4, <1>5 DEF Batch
<1> QED BY <1>6, <1>7 DEF ab

LEMMA TwoJoined == \A a, b : <<a, b>> = <<a>> \o <<b>>
<1> SUFFICES ASSUME NEW a, NEW b PROVE <<a, b>> = <<a>> \o <<b>>
  OBVIOUS
<1> DEFINE S == {a, b}
           two == <<a, b>>
           joined == <<a>> \o <<b>>
<1>1. <<a>> \in Seq(S) /\ <<b>> \in Seq(S) /\ two \in Seq(S)
  OBVIOUS
<1>2. Len(two) = 2 /\ two[1] = a /\ two[2] = b
  OBVIOUS
<1>3. /\ joined \in Seq(S) /\ Len(joined) = 2 /\ joined[1] = a /\ joined[2] = b
  <2>1. /\ joined \in Seq(S) /\ Len(joined) = Len(<<a>>) + Len(<<b>>)
        /\ \A i \in 1 .. Len(<<a>>) + Len(<<b>>) :
             joined[i] = IF i <= Len(<<a>>) THEN <<a>>[i] ELSE <<b>>[i - Len(<<a>>)]
    BY <1>1, ConcatProperties
  <2>2. Len(<<a>>) = 1 /\ Len(<<b>>) = 1 /\ <<a>>[1] = a /\ <<b>>[1] = b
    OBVIOUS
  <2> HIDE DEF joined, S
  <2> QED BY <2>1, <2>2
<1> HIDE DEF S, two, joined
<1>4. \A i \in 1 .. Len(two) : two[i] = joined[i]
  BY <1>2, <1>3
<1>5. two = joined
  BY <1>1, <1>2, <1>3, <1>4, SeqEqual
<1> QED BY <1>5 DEF two, joined

LEMMA BookingBatch ==
  ASSUME NEW t, NEW lines, GoodLines(lines, t), NEW boxes \in Nat \ {0}
  PROVE  Batch(AtBooking(lines, boxes, t), "shipment.booked") /\ Costly(AtBooking(lines, boxes, t))
<1> DEFINE on == "shipment.booked"
           quoted == [i \in DOMAIN lines |-> QuotedCharge(lines[i], t)]
           handling == Charge(on, "OHC", boxes, 215000, 215000 * boxes, <<>>, {"vendor"})
           papers == Charge(on, "DOC", 1, 85000, R!Unrecorded, <<>>, {})
<1>1. ASSUME NEW i \in DOMAIN lines
      PROVE  LET c == QuotedCharge(lines[i], t)
             IN ChargeSound(c) /\ c.on = on /\ c.invoice = 0 /\ ~c.disputed
                /\ c.code \notin DOMAIN OnOf
  <2> DEFINE l == lines[i]
             unit == R!RoundHalfUp(l.sellZar, l.quantity)
             kind == Canonical(l.code, t)
             own == [basis |-> l.basis, prov |-> IF l.buy > 0 THEN "MARKED_UP" ELSE "FORWARDER_ORIGINATED"]
             c == Charge(on, kind, l.quantity, unit, l.buyZar, own, {"contract"})
  <2>1. l.quantity \in Nat \ {0} /\ l.sellZar \in Nat /\ kind \notin DOMAIN OnOf
    BY DEF GoodLines, GoodLine
  <2>2. unit * l.quantity \in Nat
    <3>1. unit \in Nat
      BY <2>1, RoundNat
    <3> HIDE DEF unit
    <3> QED BY <2>1, <3>1
  <2>3. QuotedCharge(l, t) = c
    BY DEF QuotedCharge
  <2> HIDE DEF unit, kind, own, l
  <2>4. Charged(c, on, kind, unit * l.quantity)
    BY <2>1, <2>2, ChargeIs
  <2> HIDE DEF c
  <2> QED BY <2>1, <2>3, <2>4 DEF l, Charged
<1>2. Batch(quoted, on) /\ \A i \in DOMAIN quoted : quoted[i].code \notin DOMAIN OnOf
  <2>1. IsSeq(quoted)
    <3>1. Len(lines) \in Nat /\ DOMAIN lines = 1 .. Len(lines)
      BY SeqFacts DEF GoodLines
    <3>2. quoted \in Seq({quoted[i] : i \in DOMAIN quoted})
      BY <3>1
    <3> HIDE DEF quoted
    <3> QED BY <3>2 DEF IsSeq
  <2>2. \A i \in DOMAIN quoted :
          /\ ChargeSound(quoted[i]) /\ quoted[i].on = on /\ quoted[i].invoice = 0
          /\ ~quoted[i].disputed /\ quoted[i].code \notin DOMAIN OnOf
    BY <1>1
  <2> HIDE DEF quoted
  <2> QED BY <2>1, <2>2 DEF Batch
<1>3. Batch(<<handling>>, on) /\ handling.code = "OHC"
  <2> DEFINE unit == 215000
             buy == 215000 * boxes
             kind == "OHC"
  <2>1. unit * boxes \in Nat /\ kind \notin DOMAIN OnOf
    BY DEF OnOf
  <2>2. handling = Charge(on, kind, boxes, unit, buy, <<>>, {"vendor"})
    OBVIOUS
  <2> HIDE DEF unit, buy, kind, handling
  <2>3. Charged(handling, on, kind, unit * boxes)
    BY <2>1, <2>2, ChargeIs
  <2> QED BY <2>3, OneBatch DEF kind, Charged
<1>4. Batch(<<papers>>, on) /\ Costly(<<papers>>) /\ papers.code = "DOC"
  <2> DEFINE unit == 85000
             one == 1
             buy == R!Unrecorded
             kind == "DOC"
  <2>1. unit * one \in Nat /\ unit * one > 0 /\ kind \notin DOMAIN OnOf
    BY DEF OnOf
  <2>2. papers = Charge(on, kind, one, unit, buy, <<>>, {})
    OBVIOUS
  <2> HIDE DEF unit, buy, one, kind, papers
  <2>3. Charged(papers, on, kind, unit * one)
    BY <2>1, <2>2, ChargeIs
  <2> QED BY <2>1, <2>3, OneBatch DEF kind, Charged
<1>5. "OHC" \notin DOMAIN OnOf
  BY DEF OnOf
<1>6. AtBooking(lines, boxes, t) = quoted \o (<<handling>> \o <<papers>>)
  <2>1. AtBooking(lines, boxes, t) = quoted \o <<handling, papers>>
    BY DEF AtBooking
  <2> HIDE DEF handling, papers, quoted
  <2>2. <<handling, papers>> = <<handling>> \o <<papers>>
    BY TwoJoined
  <2> QED BY <2>1, <2>2
<1> HIDE DEF quoted, handling, papers
<1>7. Batch(<<handling>> \o <<papers>>, on) /\ Costly(<<handling>> \o <<papers>>)
  BY <1>3, <1>4, <1>5, OneIsSeq, BatchJoined
<1> DEFINE both == <<handling>> \o <<papers>>
<1>8. Batch(both, on) /\ Costly(both)
  BY <1>7
<1> HIDE DEF both, on
<1>9. Batch(quoted \o both, on) /\ Costly(quoted \o both)
  BY <1>2, <1>8, BatchJoined
<1> QED BY <1>6, <1>9 DEF both, on

LEMMA DepartureBatch ==
  ASSUME ChargesSound
  PROVE  /\ Batch(AtDeparture, "vessel.departed") /\ (AtDeparture # <<>> => Costly(AtDeparture))
         /\ \A i \in DOMAIN AtDeparture : AtDeparture[i].code = "PLF"
<1> DEFINE on == "vessel.departed"
           kind == "PLF"
           one == 1
           none == 0
           freight == SumFunctionOnSet(Sells, {i \in DOMAIN charges : charges[i].code = "FRT"})
           fee == R!Share(freight, Agents[shipment.tenant])
           charge == Charge(on, kind, one, fee, none, <<>>, {})
<1>1. AtDeparture = IF shipment.tenant \in DOMAIN Agents /\ fee > 0 THEN <<charge>> ELSE <<>>
  BY DEF AtDeparture
<1>2. CASE ~(shipment.tenant \in DOMAIN Agents /\ fee > 0)
  BY <1>1, <1>2, NoBatch, NoneIsSeq
<1>3. CASE shipment.tenant \in DOMAIN Agents /\ fee > 0
  <2>1. Agents[shipment.tenant] \in Nat
    BY <1>3, SeededBook
  <2>2. freight \in Nat
    <3> DEFINE F == {i \in DOMAIN charges : charges[i].code = "FRT"}
    <3>1. IsFiniteSet(F)
      <4>1. IsFiniteSet(DOMAIN charges)
        <5>1. Len(charges) \in Nat /\ DOMAIN charges = 1 .. Len(charges)
          BY SeqFacts DEF ChargesSound
        <5>2. IsFiniteSet(1 .. Len(charges))
          BY <5>1, FS_Interval
        <5> QED BY <5>1, <5>2
      <4> QED BY <4>1, FS_Subset
    <3>2. \A i \in F : Sells[i] \in Nat
      BY DEF Sells, ChargesSound, ChargeSound
    <3> HIDE DEF F
    <3>3. SumFunctionOnSet(Sells, F) \in Nat
      BY <3>1, <3>2, SumNat
    <3> QED BY <3>3 DEF F
  <2> HIDE DEF freight
  <2>3. fee \in Nat
    BY <2>1, <2>2, ShareNat
  <2>4. fee * one \in Nat /\ fee * one > 0
    BY <1>3, <2>3
  <2>5. kind \in DOMAIN OnOf => on = OnOf[kind]
    BY DEF OnOf
  <2> HIDE DEF fee, one, none, kind, on
  <2>6. Charged(charge, on, kind, fee * one)
    BY <2>4, <2>5, ChargeIs
  <2> HIDE DEF charge
  <2>7. Batch(<<charge>>, on) /\ Costly(<<charge>>)
    BY <2>4, <2>6, OneBatch DEF Charged
  <2>8. \A i \in DOMAIN <<charge>> : <<charge>>[i].code = kind
    BY <2>6, OneIsSeq DEF Charged
  <2> QED BY <1>1, <1>3, <2>7, <2>8 DEF kind, on
<1> QED BY <1>2, <1>3

LEMMA ReleaseBatch ==
  ASSUME NEW e, Payable(e) \in Nat
  PROVE  /\ Batch(AtRelease(e), "entry.released") /\ Costly(AtRelease(e)) /\ AtRelease(e) # <<>>
         /\ \A i \in DOMAIN AtRelease(e) : AtRelease(e)[i].code = "DTY" =>
              Payable(e) > 0 /\ AtRelease(e)[i].sell = Payable(e)
         /\ Payable(e) > 0 => \E i \in DOMAIN AtRelease(e) : AtRelease(e)[i].code = "DTY"
<1> DEFINE on == "entry.released"
           duties == "DTY"
           clearing == "CCL"
           one == 1
           price == 195000
           cost == 45000
           duty == Charge(on, duties, one, Payable(e), Payable(e), <<>>, {"vendor"})
           clear == Charge(on, clearing, one, price, cost, <<>>, {})
           first == IF Payable(e) > 0 THEN <<duty>> ELSE <<>>
<1>1. AtRelease(e) = first \o <<clear>>
  BY DEF AtRelease
<1>2. /\ price * one \in Nat /\ price * one > 0
      /\ Payable(e) * one \in Nat /\ Payable(e) * one = Payable(e)
      /\ duties # clearing
      /\ duties \in DOMAIN OnOf => on = OnOf[duties]
      /\ clearing \in DOMAIN OnOf => on = OnOf[clearing]
  BY DEF OnOf
<1> HIDE DEF on, duties, clearing, one, price, cost
<1>3. Charged(duty, on, duties, Payable(e) * one)
  BY <1>2, ChargeIs
<1>4. Charged(clear, on, clearing, price * one)
  BY <1>2, ChargeIs
<1> HIDE DEF duty, clear
<1>5. /\ Batch(first, on)
      /\ \A i \in DOMAIN first : first[i].code = duties /\ Payable(e) > 0 /\ first[i].sell = Payable(e)
      /\ Payable(e) > 0 => \E i \in DOMAIN first : first[i].code = duties
  <2>1. CASE Payable(e) > 0
    BY <1>2, <1>3, <2>1, OneBatch, OneIsSeq DEF Charged
  <2>2. CASE ~(Payable(e) > 0)
    BY <2>2, NoBatch, NoneIsSeq
  <2> QED BY <2>1, <2>2
<1>6. Batch(<<clear>>, on) /\ Costly(<<clear>>) /\ \A i \in DOMAIN <<clear>> : <<clear>>[i].code = clearing
  BY <1>2, <1>4, OneBatch, OneIsSeq DEF Charged
<1> DEFINE last == <<clear>>
           all == first \o last
<1> HIDE DEF first
<1>7. Batch(last, on) /\ Costly(last) /\ \A i \in DOMAIN last : last[i].code = clearing
  BY <1>6
<1> HIDE DEF last
<1>8. Batch(all, on) /\ Costly(all)
  BY <1>2, <1>5, <1>7, BatchJoined
<1>9. /\ \A i \in DOMAIN first : all[i] = first[i] /\ i \in DOMAIN all
      /\ \A i \in DOMAIN all : i \notin DOMAIN first => i - Len(first) \in DOMAIN last /\ all[i] = last[i - Len(first)]
  BY <1>5, <1>7, Joined DEF Batch
<1> HIDE DEF all
<1>10. \A i \in DOMAIN all : all[i].code = duties => Payable(e) > 0 /\ all[i].sell = Payable(e)
  BY <1>2, <1>5, <1>7, <1>9
<1>11. Payable(e) > 0 => \E i \in DOMAIN all : all[i].code = duties
  BY <1>5, <1>9
<1>12. all # <<>>
  BY <1>8, NoneIsSeq DEF Costly
<1>13. AtRelease(e) = all
  BY <1>1 DEF all, last
<1> QED BY <1>8, <1>10, <1>11, <1>12, <1>13 DEF on, duties

LEMMA GateBatch ==
  ASSUME NEW s, s.boxes \in Nat \ {0}, s.discharged \in Int, NEW now \in Int
  PROVE  /\ Batch(AtGate(s, now), "container.gated_out") /\ Costly(AtGate(s, now))
         /\ \A i \in DOMAIN AtGate(s, now) : AtGate(s, now)[i].code \in {"DEM", "DEL"}
<1> DEFINE on == "container.gated_out"
           late == "DEM"
           delivery == "DEL"
           rent == 95000
           price == 148000
           cost == 112000 * s.boxes
           days == R!Greater(0, R!DaysBetween(s.discharged, now) - FreeTimeDays)
           owed == 95000 * days
           dem == Charge(on, late, days, rent, owed, <<>>, {"vendor"})
           del == Charge(on, delivery, s.boxes, price, cost, <<>>, {})
           first == IF days > 0 THEN <<dem>> ELSE <<>>
<1>1. AtGate(s, now) = first \o <<del>>
  BY DEF AtGate
<1>2. /\ price * s.boxes \in Nat /\ price * s.boxes > 0
      /\ late \notin DOMAIN OnOf /\ late # delivery
      /\ delivery \in DOMAIN OnOf => on = OnOf[delivery]
  BY DEF OnOf
<1>3. days > 0 => rent * days \in Nat
  <2>1. days \in Int
    <3>1. (now - s.discharged + 23) \div 24 \in Int
      OBVIOUS
    <3> DEFINE whole == (now - s.discharged + 23) \div 24
    <3> HIDE DEF whole
    <3>2. whole \in Int
      BY <3>1 DEF whole
    <3>3. days = R!Greater(0, R!Greater(0, whole) - 5)
      BY DEF R!DaysBetween, FreeTimeDays, whole
    <3> HIDE DEF days
    <3> QED BY <3>2, <3>3 DEF R!Greater
  <2> HIDE DEF days
  <2> QED BY <2>1
<1> HIDE DEF on, late, delivery, rent, price, cost, days, owed
<1>4. days > 0 => Charged(dem, on, late, rent * days)
  BY <1>2, <1>3, ChargeIs
<1>5. Charged(del, on, delivery, price * s.boxes)
  BY <1>2, ChargeIs
<1> HIDE DEF dem, del
<1>6. Batch(first, on) /\ \A i \in DOMAIN first : first[i].code = late
  <2>1. CASE days > 0
    BY <1>4, <2>1, OneBatch, OneIsSeq DEF Charged
  <2>2. CASE ~(days > 0)
    BY <2>2, NoBatch, NoneIsSeq
  <2> QED BY <2>1, <2>2
<1>7. Batch(<<del>>, on) /\ Costly(<<del>>) /\ \A i \in DOMAIN <<del>> : <<del>>[i].code = delivery
  BY <1>2, <1>5, OneBatch, OneIsSeq DEF Charged
<1> DEFINE last == <<del>>
           all == first \o last
<1> HIDE DEF first
<1>8. Batch(last, on) /\ Costly(last) /\ \A i \in DOMAIN last : last[i].code = delivery
  BY <1>7
<1> HIDE DEF last
<1>9. Batch(all, on) /\ Costly(all)
  BY <1>2, <1>6, <1>8, BatchJoined
<1>10. /\ \A i \in DOMAIN first : all[i] = first[i] /\ i \in DOMAIN all
       /\ \A i \in DOMAIN all : i \notin DOMAIN first => i - Len(first) \in DOMAIN last /\ all[i] = last[i - Len(first)]
  BY <1>6, <1>8, Joined DEF Batch
<1> HIDE DEF all
<1>11. \A i \in DOMAIN all : all[i].code \in {late, delivery}
  BY <1>6, <1>8, <1>10
<1>12. AtGate(s, now) = all
  BY <1>1 DEF all, last
<1> QED BY <1>9, <1>11, <1>12 DEF on, late, delivery

-----------------------------------------------------------------------------
(* What is kept when charges are added.                                    *)

LineSum(n) == SumFunctionOnSet([i \in DOMAIN charges |-> Sells[i] + Vats[i]], LinesOf(n))

LEMMA ChargesFinite == ChargesSound => IsFiniteSet(DOMAIN charges)
<1> SUFFICES ASSUME ChargesSound PROVE IsFiniteSet(DOMAIN charges)
  OBVIOUS
<1>1. Len(charges) \in Nat /\ DOMAIN charges = 1 .. Len(charges)
  BY SeqFacts DEF ChargesSound
<1>2. IsFiniteSet(1 .. Len(charges))
  BY <1>1, FS_Interval
<1> QED BY <1>1, <1>2

\* Lines that cost what they did come to what they did.
LEMMA LineSumKept ==
  ASSUME ChargesSound, NEW n, NEW m, LinesOf(m)' = LinesOf(n),
         \A i \in LinesOf(n) : /\ i \in DOMAIN charges'
                               /\ charges'[i].sell = charges[i].sell
                               /\ charges'[i].vatBps = charges[i].vatBps
  PROVE  LineSum(m)' = LineSum(n)
<1> DEFINE S == LinesOf(n)
           f == [i \in DOMAIN charges |-> Sells[i] + Vats[i]]
           g == [i \in DOMAIN charges' |-> Sells'[i] + Vats'[i]]
<1>1. IsFiniteSet(S)
  BY ChargesFinite, FS_Subset DEF LinesOf
<1>2. \A i \in S : g[i] = f[i]
  BY DEF Sells, Vats, LinesOf
<1>3. LineSum(m)' = SumFunctionOnSet(g, S) /\ LineSum(n) = SumFunctionOnSet(f, S)
  BY DEF LineSum
<1> HIDE DEF S, f, g
<1>4. SumFunctionOnSet(g, S) = SumFunctionOnSet(f, S)
  BY <1>1, <1>2, SumSame
<1> QED BY <1>3, <1>4

\* Every charge there was is kept, and the others are of the batch.
GrewBy(batch) ==
  /\ \A i \in DOMAIN charges : i \in DOMAIN charges' /\ charges'[i] = charges[i]
  /\ \A i \in DOMAIN charges' : i \notin DOMAIN charges =>
       \E k \in DOMAIN batch : charges'[i] = batch[k]
  /\ \A k \in DOMAIN batch : \E i \in DOMAIN charges' : charges'[i] = batch[k]

LEMMA Grew ==
  ASSUME IsSeq(charges), NEW batch, IsSeq(batch), charges' = charges \o batch
  PROVE  GrewBy(batch) /\ IsSeq(charges')
<1>1. /\ \A i \in DOMAIN charges : i \in DOMAIN (charges \o batch) /\ (charges \o batch)[i] = charges[i]
      /\ \A i \in DOMAIN (charges \o batch) : i \notin DOMAIN charges =>
           i - Len(charges) \in DOMAIN batch /\ (charges \o batch)[i] = batch[i - Len(charges)]
      /\ \A i \in DOMAIN batch :
           i + Len(charges) \in DOMAIN (charges \o batch) /\ (charges \o batch)[i + Len(charges)] = batch[i]
      /\ IsSeq(charges \o batch)
  BY Joined
<1> QED BY <1>1 DEF GrewBy

LEMMA ChargesGrow ==
  ASSUME ChargesSound, NEW batch, NEW on, Batch(batch, on), batch = <<>> \/ Costly(batch),
         batch = <<>> \/ ~Accrued(on), charges' = charges \o batch, Len(invoices') = Len(invoices),
         Len(invoices) \in Nat
  PROVE  ChargesSound' /\ GrewBy(batch)
<1>1. GrewBy(batch) /\ IsSeq(charges')
  BY Grew DEF ChargesSound, Batch
<1>2. batch = <<>> => DOMAIN batch = {}
  BY NoneIsSeq
<1>3. ASSUME NEW i \in DOMAIN charges'
      PROVE  /\ ChargeSound(charges'[i]) /\ charges'[i].invoice \in 0 .. Len(invoices')
             /\ \E j \in DOMAIN charges' :
                  charges'[j].invoice = charges'[i].invoice /\ charges'[j].sell > 0
  <2>1. CASE i \in DOMAIN charges
    <3>1. charges'[i] = charges[i]
      BY <1>1, <2>1 DEF GrewBy
    <3>2. PICK j \in DOMAIN charges : charges[j].invoice = charges[i].invoice /\ charges[j].sell > 0
      BY <2>1 DEF ChargesSound
    <3>3. j \in DOMAIN charges' /\ charges'[j] = charges[j]
      BY <1>1 DEF GrewBy
    <3> QED BY <2>1, <3>1, <3>2, <3>3 DEF ChargesSound
  <2>2. CASE i \notin DOMAIN charges
    <3>1. PICK k \in DOMAIN batch : charges'[i] = batch[k]
      BY <1>1, <2>2 DEF GrewBy
    <3>2. PICK l \in DOMAIN batch : batch[l].sell > 0
      BY <1>2, <3>1 DEF Costly
    <3>3. PICK j \in DOMAIN charges' : charges'[j] = batch[l]
      BY <1>1 DEF GrewBy
    <3> QED BY <3>1, <3>2, <3>3 DEF Batch
  <2> QED BY <2>1, <2>2
<1>4. ASSUME NEW i \in DOMAIN charges', NEW j \in DOMAIN charges',
             charges'[i].code = charges'[j].code, charges'[i].code \in DOMAIN OnOf,
             i \in DOMAIN charges
      PROVE  j \in DOMAIN charges
  <2> SUFFICES ASSUME j \notin DOMAIN charges PROVE FALSE
    OBVIOUS
  <2>1. charges'[i] = charges[i]
    BY <1>1, <1>4 DEF GrewBy
  <2>2. PICK k \in DOMAIN batch : charges'[j] = batch[k]
    BY <1>1 DEF GrewBy
  <2>3. ChargeSound(charges[i]) /\ ChargeSound(batch[k]) /\ batch[k].on = on
    BY <1>4, <2>2 DEF ChargesSound, Batch
  <2>4. charges[i].on = on
    BY <1>4, <2>1, <2>2, <2>3 DEF ChargeSound
  <2> QED BY <1>2, <1>4, <2>2, <2>4 DEF Accrued
<1>5. \A k, l \in DOMAIN batch : batch[k].code = batch[l].code /\ batch[k].code \in DOMAIN OnOf => k = l
  BY DEF Batch
<1>6. IsSeq(batch) /\ IsSeq(charges)
  BY DEF Batch, ChargesSound
<1>7. \A i \in DOMAIN charges' : i \notin DOMAIN charges =>
        i - Len(charges) \in DOMAIN batch /\ charges'[i] = batch[i - Len(charges)]
  BY <1>6, Joined
<1>8. Len(charges) \in Nat /\ \A i \in DOMAIN charges' : i \in Nat
  BY <1>1, <1>6, SeqFacts
<1>9. ASSUME NEW i \in DOMAIN charges', NEW j \in DOMAIN charges',
             charges'[i].code = charges'[j].code, charges'[i].code \in DOMAIN OnOf
      PROVE  i = j
  <2>1. CASE i \in DOMAIN charges \/ j \in DOMAIN charges
    <3>1. i \in DOMAIN charges /\ j \in DOMAIN charges
      BY <1>4, <1>9, <2>1
    <3>2. charges'[i] = charges[i] /\ charges'[j] = charges[j]
      BY <1>1, <3>1 DEF GrewBy
    <3> QED BY <1>9, <3>1, <3>2 DEF ChargesSound
  <2>2. CASE i \notin DOMAIN charges /\ j \notin DOMAIN charges
    <3>1. i - Len(charges) = j - Len(charges)
      BY <1>5, <1>7, <1>9, <2>2
    <3> QED BY <1>8, <3>1
  <2> QED BY <2>1, <2>2
<1> QED BY <1>1, <1>3, <1>9 DEF ChargesSound

\* No invoice gains a line.
LEMMA FootGrows ==
  ASSUME ChargesSound, InvoicesFoot, NEW batch, GrewBy(batch),
         \A k \in DOMAIN batch : batch[k].invoice = 0,
         invoices \in Seq(InvoiceRecords), invoices' = invoices
  PROVE  InvoicesFoot'
<1> SUFFICES ASSUME NEW n \in DOMAIN invoices
             PROVE  LinesOf(n)' # {} /\ invoices[n].total = LineSum(n)'
  BY DEF InvoicesFoot, LineSum
<1>1. n # 0
  OBVIOUS
<1>2. LinesOf(n)' = LinesOf(n)
  BY <1>1 DEF LinesOf, GrewBy
<1>3. \A i \in LinesOf(n) : i \in DOMAIN charges' /\ charges'[i] = charges[i]
  BY DEF LinesOf, GrewBy
<1>4. LineSum(n)' = LineSum(n)
  BY <1>2, <1>3, LineSumKept
<1> QED BY <1>2, <1>4 DEF InvoicesFoot, LineSum

\* Nobody disputed what has just been charged.
LEMMA FindingsGrow ==
  ASSUME FindingsSound, NEW batch, GrewBy(batch), \A k \in DOMAIN batch : ~batch[k].disputed,
         UNCHANGED <<exceptions, audited>>
  PROVE  FindingsSound'
<1>1. \A i \in DOMAIN charges' : charges'[i].disputed => i \in DOMAIN charges /\ charges[i].disputed
  BY DEF GrewBy
<1> QED BY <1>1 DEF FindingsSound, FindingsKept

LEMMA SettledKept ==
  ASSUME SettledByTotal, invoices' = invoices, payments' = payments,
         hours.now \in Nat, hours.now' \in Nat, hours.now <= hours.now',
         invoices \in Seq(InvoiceRecords)
  PROVE  SettledByTotal'
<1>1. \A n : PaidOn(n)' = PaidOn(n)
  BY DEF PaidOn
<1>2. \A n \in DOMAIN invoices : invoices[n].due \in Nat
  <2>1. \A n \in DOMAIN invoices : invoices[n] \in InvoiceRecords
    BY ElementOfSeq
  <2> QED BY <2>1 DEF InvoiceRecords
<1> QED BY <1>1, <1>2 DEF SettledByTotal

\* What the entry owes has been charged as it was, and its clearance no more.
DutyKept ==
  /\ AccruedFor("DTY")' = AccruedFor("DTY")
  /\ \A i \in AccruedFor("DTY") : charges'[i].sell = charges[i].sell
  /\ Accrued("entry.released")' = Accrued("entry.released")

\* The entry is the one it was, whatever its status.
EntryKept ==
  /\ shipment'.boxes = shipment.boxes
  /\ entry' = NoEntry <=> entry = NoEntry
  /\ entry'.rate = entry.rate /\ entry'.late = entry.late

LEMMA OwesTheSame == EntryKept => Payable(entry)' = Payable(entry)
BY DEF EntryKept, Payable

LEMMA DutyGrew ==
  ASSUME NEW batch, NEW on, Batch(batch, on), on # "entry.released", GrewBy(batch)
  PROVE  DutyKept
<1>1. ASSUME NEW i \in DOMAIN charges', i \notin DOMAIN charges
      PROVE  charges'[i].code # "DTY" /\ charges'[i].on # "entry.released"
  <2>1. PICK k \in DOMAIN batch : charges'[i] = batch[k]
    BY <1>1 DEF GrewBy
  <2>2. ChargeSound(batch[k]) /\ batch[k].on = on
    BY DEF Batch
  <2> QED BY <2>1, <2>2 DEF ChargeSound, OnOf
<1>2. \A i \in DOMAIN charges : i \in DOMAIN charges' /\ charges'[i] = charges[i]
  BY DEF GrewBy
<1>3. AccruedFor("DTY")' = AccruedFor("DTY")
  BY <1>1, <1>2 DEF AccruedFor
<1>4. Accrued("entry.released")' = Accrued("entry.released")
  BY <1>1, <1>2 DEF Accrued
<1>5. \A i \in AccruedFor("DTY") : charges'[i].sell = charges[i].sell
  BY <1>2 DEF AccruedFor
<1> QED BY <1>3, <1>4, <1>5 DEF DutyKept

LEMMA ClearedKept ==
  ASSUME ClearedSound, DutyKept, EntryKept,
         entry'.status = "RELEASED" => entry.status = "RELEASED" \/ Accrued("entry.released")
  PROVE  ClearedSound'
<1>1. Payable(entry)' = Payable(entry)
  BY OwesTheSame
<1>2. entry' = NoEntry => AccruedFor("DTY")' = {}
  BY DEF ClearedSound, DutyKept, EntryKept
<1>3. \A i \in AccruedFor("DTY")' : charges'[i].sell = Payable(entry)'
  BY <1>1 DEF ClearedSound, DutyKept
<1>4. entry'.status = "RELEASED" => Accrued("entry.released")'
  BY DEF ClearedSound, DutyKept
<1>5. entry' # NoEntry /\ Accrued("entry.released")' /\ Payable(entry)' > 0
        => entry'.late \/ AccruedFor("DTY")' # {}
  BY <1>1 DEF ClearedSound, DutyKept, EntryKept
<1> QED BY <1>2, <1>3, <1>4, <1>5 DEF ClearedSound

\* The duty is on no charge before the clearance is.
LEMMA NotYetDuty ==
  ASSUME ChargesSound, ~Accrued("entry.released")
  PROVE  AccruedFor("DTY") = {}
BY DEF ChargesSound, ChargeSound, Accrued, AccruedFor, OnOf

LEMMA ClearedReleased ==
  ASSUME ChargesSound, ClearedSound, EntryKept, shipment.boxes \in Nat, entry'.rate \in Nat,
         charges' = charges \o (IF Accrued("entry.released") THEN <<>> ELSE AtRelease(entry'))
  PROVE  ClearedSound'
<1>1. CASE Accrued("entry.released")
  <2>1. GrewBy(<<>>)
    BY <1>1, Grew, NoneIsSeq DEF ChargesSound
  <2>2. DutyKept
    <3> DEFINE none == <<>>
    <3>1. Batch(none, "shipment.booked") /\ GrewBy(none)
      BY <2>1, NoBatch
    <3> HIDE DEF none
    <3> QED BY <3>1, DutyGrew
  <2> QED BY <1>1, <2>2, ClearedKept
<1>2. CASE ~Accrued("entry.released")
  <2> DEFINE batch == AtRelease(entry')
  <2>1. Payable(entry') \in Nat /\ Payable(entry)' = Payable(entry')
    BY PayableNat DEF Payable, EntryKept
  <2>2. /\ Batch(batch, "entry.released") /\ Costly(batch)
        /\ \A i \in DOMAIN batch : batch[i].code = "DTY" =>
             Payable(entry') > 0 /\ batch[i].sell = Payable(entry')
        /\ Payable(entry') > 0 => \E i \in DOMAIN batch : batch[i].code = "DTY"
    BY <2>1, ReleaseBatch
  <2>3. charges' = charges \o batch
    BY <1>2
  <2> HIDE DEF batch
  <2>4. GrewBy(batch)
    BY <2>2, <2>3, Grew DEF ChargesSound, Batch
  <2>5. AccruedFor("DTY") = {}
    BY <1>2, NotYetDuty
  <2>6. \A i \in AccruedFor("DTY")' : Payable(entry') > 0 /\ charges'[i].sell = Payable(entry')
    <3> SUFFICES ASSUME NEW i \in DOMAIN charges', charges'[i].code = "DTY"
                 PROVE  Payable(entry') > 0 /\ charges'[i].sell = Payable(entry')
      BY DEF AccruedFor
    <3>1. i \notin DOMAIN charges
      BY <2>4, <2>5 DEF AccruedFor, GrewBy
    <3> QED BY <2>2, <2>4, <3>1 DEF GrewBy
  <2>7. Accrued("entry.released")'
    <3>1. PICK k \in DOMAIN batch : batch[k].on = "entry.released"
      BY <2>2 DEF Batch, Costly
    <3> QED BY <2>4, <3>1 DEF GrewBy, Accrued
  <2>8. Payable(entry') > 0 => AccruedFor("DTY")' # {}
    BY <2>2, <2>4 DEF GrewBy, AccruedFor
  <2>9. entry' = NoEntry => AccruedFor("DTY")' = {}
    <3>1. entry' = NoEntry => ~(Payable(entry') > 0)
      BY DEF Payable
    <3> QED BY <2>6, <3>1
  <2> QED BY <2>1, <2>6, <2>7, <2>8, <2>9 DEF ClearedSound
<1> QED BY <1>1, <1>2

-----------------------------------------------------------------------------
(* The parts of the invariant a step leaves alone.                         *)

LEMMA ChargesAlone ==
  ASSUME ChargesSound, charges' = charges, Len(invoices') = Len(invoices)
  PROVE  ChargesSound' /\ DutyKept
BY DEF ChargesSound, DutyKept, AccruedFor, Accrued

LEMMA InvoicesAlone ==
  ASSUME ConsoleShape, ChargesSound, InvoicesSound, UNCHANGED <<invoices, payments>>,
         NEW batch, GrewBy(batch), \A k \in DOMAIN batch : batch[k].invoice = 0,
         hours.now' \in Nat, hours.now <= hours.now'
  PROVE  InvoicesSound'
<1>1. InvoicesFoot'
  BY FootGrows DEF InvoicesSound
<1>2. SettledByTotal'
  BY SettledKept DEF InvoicesSound, ConsoleShape
<1> QED BY <1>1, <1>2 DEF InvoicesSound

LEMMA NoneGrew ==
  ASSUME charges' = charges
  PROVE  GrewBy(<<>>) /\ (\A k \in DOMAIN <<>> : <<>>[k].invoice = 0 /\ ~<<>>[k].disputed)
BY NoneIsSeq DEF GrewBy

LEMMA LedgerAlone ==
  ASSUME BooksInv, UNCHANGED <<charges, invoices, payments>>,
         hours.now' \in Nat, hours.now <= hours.now'
  PROVE  InvoicesSound' /\ ChargesSound' /\ DutyKept
<1>1. ChargesSound' /\ DutyKept
  BY ChargesAlone DEF BooksInv
<1>2. InvoicesSound'
  <2> DEFINE none == <<>>
  <2>1. GrewBy(none) /\ \A k \in DOMAIN none : none[k].invoice = 0
    BY NoneGrew
  <2> HIDE DEF none
  <2> QED BY <2>1, InvoicesAlone DEF BooksInv
<1> QED BY <1>1, <1>2

LEMMA FindingsAlone ==
  ASSUME FindingsSound, UNCHANGED <<charges, exceptions, audited>>
  PROVE  FindingsSound'
BY DEF FindingsSound, FindingsKept

\* The console as it is seeded: nothing is booked, charged, invoiced or audited.
LEMMA BooksInit == ConsoleInit => BooksInv
<1> SUFFICES ASSUME ConsoleInit PROVE BooksInv
  OBVIOUS
<1> USE DEF ConsoleInit
<1>1. shipment = Unbooked /\ charges = <<>> /\ entry = NoEntry /\ DOMAIN charges = {}
  BY NoneIsSeq
<1>2. ConsoleShape
  <2>1. IsShipment(shipment) /\ shipment.boxes \in Nat /\ shipment.discharged \in Int /\ ~Booked
    BY DEF IsShipment, Unbooked, R!Unrecorded, Booked
  <2>2. IsEntry(entry) /\ entry.rate \in Nat
    BY DEF IsEntry, NoEntry
  <2> QED BY <1>1, <2>1, <2>2 DEF ConsoleShape
<1>3. ChargesSound
  BY <1>1, NoneIsSeq DEF ChargesSound
<1>4. ClearedSound
  <2>1. ~Accrued("entry.released") /\ AccruedFor("DTY") = {} /\ entry.status # "RELEASED"
    BY <1>1 DEF Accrued, AccruedFor, NoEntry
  <2> QED BY <2>1 DEF ClearedSound
<1>5. InvoicesSound
  <2>1. DOMAIN invoices = {} /\ invoices \in Seq(InvoiceRecords) /\ payments = {}
    OBVIOUS
  <2> QED BY <2>1 DEF InvoicesSound, InvoicesFoot, SettledByTotal
<1>6. FindingsSound
  <2>1. DOMAIN exceptions = {} /\ DOMAIN audited.found = {}
    BY NoneIsSeq
  <2>2. exceptions = [key \in DOMAIN exceptions |-> exceptions[key]]
    OBVIOUS
  <2>3. audited = [found |-> audited.found, count |-> audited.count, decided |-> audited.decided]
    OBVIOUS
  <2> QED BY <1>1, <2>1, <2>2, <2>3 DEF FindingsSound, FindingsKept
<1> QED BY <1>2, <1>3, <1>4, <1>5, <1>6 DEF BooksInv

-----------------------------------------------------------------------------
(* One step of each handler.                                               *)

\* The handlers that leave the charges, invoices, payments and findings alone.
LEMMA BooksAlone ==
  ASSUME BooksInv, UNCHANGED <<charges, invoices, payments, exceptions, audited>>,
         hours.now' \in Nat, hours.now <= hours.now', ConsoleShape', ClearedSound'
  PROVE  BooksInv'
<1>1. InvoicesSound' /\ ChargesSound'
  BY LedgerAlone
<1>2. FindingsSound'
  BY FindingsAlone DEF BooksInv
<1> QED BY <1>1, <1>2 DEF BooksInv

LEMMA SameClock == BooksInv /\ hours' = hours => hours.now' \in Nat /\ hours.now <= hours.now'
BY DEF BooksInv, ConsoleShape

LEMMA EditFormStep ==
  ASSUME BooksInv, NEW lane \in DOMAIN Lanes, EditForm(lane)
  PROVE  BooksInv'
<1> USE DEF EditForm
<1>1. DutyKept
  BY ChargesAlone DEF BooksInv
<1>2. ClearedSound'
  BY <1>1, ClearedKept DEF BooksInv, EntryKept
<1>3. form' = [lane |-> form'.lane, priced |-> form'.priced, prices |-> form'.prices] /\ form'.lane = lane
  BY DEF BooksInv, ConsoleShape
<1>4. ConsoleShape'
  BY <1>3 DEF BooksInv, ConsoleShape, IsShipment, IsEntry, Booked
<1> QED BY <1>2, <1>4, BooksAlone, SameClock

LEMMA RaiseQuoteStep ==
  ASSUME BooksInv, NEW user \in Seats, RaiseQuote(user)
  PROVE  BooksInv'
<1> USE DEF RaiseQuote
<1>1. DutyKept
  BY ChargesAlone DEF BooksInv
<1>2. ClearedSound'
  BY <1>1, ClearedKept DEF BooksInv, EntryKept
<1>3. form' = [lane |-> form'.lane, priced |-> form'.priced, prices |-> form'.prices] /\ form'.lane = form.lane
  BY DEF BooksInv, ConsoleShape
<1>4. ConsoleShape'
  BY <1>3 DEF BooksInv, ConsoleShape, IsShipment, IsEntry, Booked
<1> QED BY <1>2, <1>4, BooksAlone, SameClock

\* The form holds one of the requests it can, and booking it prices lines that can
\* be charged.
LEMMA RequestGood == BooksInv => GoodRequest(Request) /\ Request.quantity \in Nat \ {0}
<1> SUFFICES ASSUME BooksInv PROVE GoodRequest(Request) /\ Request.quantity \in Nat \ {0}
  OBVIOUS
<1>1. form.lane \in DOMAIN Lanes
  BY DEF BooksInv, ConsoleShape
<1> DEFINE lane == Lanes[form.lane]
<1>2. /\ lane.quantity \in Nat \ {0} /\ lane.cargo \in DOMAIN R!CargoTypes
      /\ lane.urgency \in DOMAIN R!Urgencies /\ {"quantity", "cargo", "urgency"} \subseteq DOMAIN lane
  BY <1>1, SeededBook
<1>3. /\ Request.quantity = lane.quantity /\ Request.cargo = lane.cargo
      /\ Request.urgency = lane.urgency
  <2> HIDE DEF lane
  <2>1. Request = [f \in DOMAIN lane \cup {"at"} |-> IF f = "at" THEN hours.now ELSE lane[f]]
    BY DEF Request, lane
  <2> QED BY <1>2, <2>1
<1> QED BY <1>2, <1>3 DEF GoodRequest

LEMMA QuoteGood ==
  ASSUME BooksInv, NEW user \in Seats, "ops" \in user.roles,
         R!Quotable(Book[user.tenant].cards, Request)
  PROVE  GoodLines(CreateQuote(user), user.tenant)
<1> DEFINE t == user.tenant
           cards == Book[t].cards
           rules == Book[t].rules
           req == Request
<1>1. t \in DOMAIN Book
  BY SeededBook
<1>2. /\ IsFiniteSet(cards) /\ IsFiniteSet(rules)
      /\ \A c \in cards : /\ GoodCard(c, t) /\ c.id \in Nat
                          /\ \A d \in cards : c.id = d.id => c = d
      /\ \A r \in rules : /\ GoodRule(r) /\ r.created \in Nat
                          /\ \A s \in rules : r.created = s.created => r = s
  BY <1>1, SeededBook DEF GoodCard, GoodRule, Currencies
<1>3. GoodRequest(req)
  BY RequestGood
<1>4. CreateQuote(user) = R!Price(cards, rules, req)
  BY DEF CreateQuote
<1>5. R!Quotable(cards, req)
  OBVIOUS
<1> HIDE DEF cards, rules, req, t
<1>6. GoodLines(R!Price(cards, rules, req), t)
  BY <1>2, <1>3, <1>5, PriceGood
<1> QED BY <1>4, <1>6 DEF t

LEMMA BookItStep ==
  ASSUME BooksInv, NEW user \in Seats, BookIt(user)
  PROVE  BooksInv'
<1> USE DEF BookIt
<1>1. CASE ~R!Quotable(Book[user.tenant].cards, Request)
  <2>1. DutyKept
    BY <1>1, ChargesAlone DEF BooksInv
  <2>2. ClearedSound'
    BY <1>1, <2>1, ClearedKept DEF BooksInv, EntryKept
  <2>3. ConsoleShape'
    BY <1>1 DEF BooksInv, ConsoleShape, IsShipment, IsEntry, Booked
  <2> QED BY <1>1, <2>2, <2>3, BooksAlone, SameClock
<1>2. CASE R!Quotable(Book[user.tenant].cards, Request)
  <2> DEFINE quote == CreateQuote(user)
             boxes == Request.quantity
             on == "shipment.booked"
             batch == AtBooking(quote, boxes, user.tenant)
  <2>1. GoodLines(quote, user.tenant) /\ boxes \in Nat \ {0}
    BY <1>2, QuoteGood, RequestGood
  <2>2. Batch(batch, on) /\ Costly(batch)
    <3> HIDE DEF quote, boxes
    <3> QED BY <2>1, BookingBatch
  <2>3. BookQuote(user, quote) /\ form' = [form EXCEPT !.priced = FALSE]
    BY <1>2
  <2>4. charges = <<>> /\ entry = NoEntry /\ ~Booked
    BY DEF BooksInv, ConsoleShape
  <2>5. charges' = batch /\ charges' = charges \o batch
    <3>1. charges' = batch
      BY <2>3 DEF BookQuote
    <3> HIDE DEF batch
    <3>2. <<>> \o batch = batch
      <4>1. PICK S : batch \in Seq(S)
        BY <2>2 DEF Batch, IsSeq
      <4> QED BY <4>1, ConcatEmptySeq
    <3> QED BY <2>4, <3>1, <3>2
  <2>6. ~Accrued(on) /\ on # "entry.released"
    BY <2>4, NoneIsSeq DEF Accrued
  <2>7. Len(invoices) \in Nat /\ invoices' = invoices
    BY LenProperties DEF BooksInv, InvoicesSound
  <2>8. shipment' = [Unbooked EXCEPT !.tenant = user.tenant, !.lane = form.lane,
                       !.events = {"shipment.booked"}, !.lines = quote, !.boxes = boxes]
    BY <2>3 DEF BookQuote
  <2> HIDE DEF batch, quote, boxes
  <2>9. ConsoleShape'
    <3>1. shipment'.boxes = boxes /\ shipment'.discharged = R!Unrecorded /\ IsShipment(shipment')
      BY <2>8 DEF Unbooked, IsShipment
    <3>2. shipment' # Unbooked
      BY <2>1, <3>1 DEF Unbooked
    <3>3. R!Unrecorded \in Int
      BY DEF R!Unrecorded
    <3>4. /\ form' = [lane |-> form'.lane, priced |-> form'.priced, prices |-> form'.prices]
          /\ form'.lane = form.lane
      BY <2>3 DEF BooksInv, ConsoleShape
    <3> QED BY <2>1, <2>4, <3>1, <3>2, <3>3, <3>4 DEF BooksInv, ConsoleShape, Booked, IsEntry, IsShipment
  <2> HIDE DEF on
  <2>10. ChargesSound' /\ GrewBy(batch)
    BY <2>2, <2>5, <2>6, <2>7, ChargesGrow DEF BooksInv
  <2>11. \A k \in DOMAIN batch : batch[k].invoice = 0 /\ ~batch[k].disputed
    BY <2>2 DEF Batch
  <2>12. InvoicesSound'
    BY <2>10, <2>11, InvoicesAlone, SameClock DEF BooksInv
  <2>13. FindingsSound'
    BY <2>10, <2>11, FindingsGrow DEF BooksInv
  <2>14. ClearedSound'
    <3>1. AccruedFor("DTY") = {} /\ entry' = NoEntry
      BY <2>4, NoneIsSeq DEF AccruedFor
    <3>2. DutyKept
      BY <2>2, <2>6, <2>10, DutyGrew
    <3>3. entry'.status # "RELEASED"
      BY <3>1 DEF NoEntry
    <3> QED BY <3>1, <3>2, <3>3 DEF ClearedSound, DutyKept
  <2> QED BY <2>9, <2>10, <2>12, <2>13, <2>14 DEF BooksInv
<1> QED BY <1>1, <1>2

LEMMA NewEntryStep ==
  ASSUME BooksInv, NEW user \in Seats, NEW rate \in GoodsRates, NewEntry(user, rate)
  PROVE  BooksInv'
<1> USE DEF NewEntry
<1>1. DutyKept
  BY ChargesAlone DEF BooksInv
<1>2. R!Greater(rate, 0) \in Nat
  BY SeededBook DEF R!Greater
<1>3. /\ entry'.status = "DRAFT" /\ IsEntry(entry') /\ entry'.rate \in Nat
      /\ entry'.late = Accrued("entry.released") /\ entry' # NoEntry
  BY <1>2 DEF IsEntry, NoEntry
<1>4. /\ IsShipment(shipment') /\ shipment'.boxes = shipment.boxes
      /\ shipment'.discharged = shipment.discharged /\ Booked /\ Booked'
  BY DEF BooksInv, ConsoleShape, IsShipment, Sees, Booked, Unbooked
<1>5. ConsoleShape'
  BY <1>3, <1>4 DEF BooksInv, ConsoleShape
<1>6. ClearedSound'
  BY <1>1, <1>3 DEF BooksInv, ClearedSound, DutyKept
<1> QED BY <1>5, <1>6, BooksAlone, SameClock

LEMMA ConfirmLineStep ==
  ASSUME BooksInv, NEW user \in Seats, ConfirmLine(user)
  PROVE  BooksInv'
<1> USE DEF ConfirmLine
<1>1. DutyKept
  BY ChargesAlone DEF BooksInv
<1>2. /\ entry'.status = entry.status /\ IsEntry(entry') /\ entry'.rate = entry.rate
      /\ entry'.late = entry.late
  BY DEF BooksInv, ConsoleShape, IsEntry
<1>3. entry' # NoEntry
  BY <1>2 DEF BooksInv, ConsoleShape, NoEntry
<1>4. ConsoleShape'
  BY <1>2, <1>3 DEF BooksInv, ConsoleShape, IsShipment, Booked, Sees
<1>5. ClearedSound'
  BY <1>1, <1>2, <1>3, ClearedKept DEF BooksInv, EntryKept
<1> QED BY <1>4, <1>5, BooksAlone, SameClock

LEMMA SubmitEntryStep ==
  ASSUME BooksInv, NEW user \in Seats, SubmitEntry(user)
  PROVE  BooksInv'
<1> USE DEF SubmitEntry
<1>1. DutyKept
  BY ChargesAlone DEF BooksInv
<1>2. /\ entry'.status = "SUBMITTED" /\ IsEntry(entry') /\ entry'.rate = entry.rate
      /\ entry'.late = entry.late
  BY DEF BooksInv, ConsoleShape, IsEntry
<1>3. entry' # NoEntry /\ entry # NoEntry
  BY <1>2 DEF NoEntry
<1>4. /\ IsShipment(shipment') /\ shipment'.boxes = shipment.boxes
      /\ shipment'.discharged = shipment.discharged /\ Booked /\ Booked'
  BY DEF BooksInv, ConsoleShape, IsShipment, Sees, Booked, Unbooked
<1>5. ConsoleShape'
  BY <1>2, <1>3, <1>4 DEF BooksInv, ConsoleShape
<1>6. ClearedSound'
  BY <1>1, <1>2, <1>3, <1>4, ClearedKept DEF BooksInv, EntryKept
<1> QED BY <1>5, <1>6, BooksAlone, SameClock

LEMMA BuildSubmissionStep ==
  ASSUME BooksInv, NEW user \in Seats, BuildSubmission(user)
  PROVE  BooksInv'
<1> USE DEF BuildSubmission
<1>1. DutyKept
  BY ChargesAlone DEF BooksInv
<1>2. ConsoleShape'
  BY DEF BooksInv, ConsoleShape, IsShipment, IsEntry, Booked
<1>3. ClearedSound'
  BY <1>1, ClearedKept DEF BooksInv, EntryKept
<1> QED BY <1>2, <1>3, BooksAlone, SameClock

LEMMA ToggleFeedStep ==
  ASSUME BooksInv, NEW feed, ToggleFeed(feed)
  PROVE  BooksInv'
<1> USE DEF ToggleFeed
<1>1. DutyKept
  BY ChargesAlone DEF BooksInv
<1>2. ConsoleShape'
  BY DEF BooksInv, ConsoleShape, IsShipment, IsEntry, Booked
<1>3. ClearedSound'
  BY <1>1, ClearedKept DEF BooksInv, EntryKept
<1> QED BY <1>2, <1>3, BooksAlone, SameClock

\* What is charged for a trigger.
LEMMA TriggerBatch ==
  ASSUME ChargesSound, NEW on, NEW s, s.boxes \in Nat \ {0}, s.discharged \in Int,
         NEW e, Payable(e) \in Nat, NEW now \in Int, AccrueFor(on, s, e, now)
  PROVE  \E batch : /\ charges' = charges \o batch /\ Batch(batch, on)
                    /\ batch = <<>> \/ Costly(batch)
                    /\ batch = <<>> \/ ~Accrued(on)
<1>1. CASE Accrued(on)
  <2>1. charges' = charges \o <<>>
    BY <1>1 DEF AccrueFor
  <2> QED BY <2>1, NoBatch
<1>2. CASE ~Accrued(on) /\ on = "vessel.departed"
  <2>1. charges' = charges \o AtDeparture
    BY <1>2 DEF AccrueFor
  <2> QED BY <1>2, <2>1, DepartureBatch
<1>3. CASE ~Accrued(on) /\ on = "entry.released"
  <2>1. charges' = charges \o AtRelease(e)
    BY <1>3 DEF AccrueFor
  <2> QED BY <1>3, <2>1, ReleaseBatch
<1>4. CASE ~Accrued(on) /\ on = "container.gated_out"
  <2>1. charges' = charges \o AtGate(s, now)
    BY <1>4 DEF AccrueFor
  <2> QED BY <1>4, <2>1, GateBatch
<1>5. CASE ~Accrued(on) /\ on \notin {"vessel.departed", "entry.released", "container.gated_out"}
  <2>1. charges' = charges \o <<>>
    BY <1>5 DEF AccrueFor
  <2> QED BY <2>1, NoBatch
<1> QED BY <1>1, <1>2, <1>3, <1>4, <1>5

LEMMA AccrueForKeeps ==
  ASSUME BooksInv, NEW on, NEW s, s.boxes \in Nat \ {0}, s.discharged \in Int,
         NEW e, Payable(e) \in Nat, NEW now \in Int, AccrueFor(on, s, e, now),
         UNCHANGED <<invoices, payments, exceptions, audited>>,
         hours.now' \in Nat, hours.now <= hours.now'
  PROVE  /\ ChargesSound' /\ InvoicesSound' /\ FindingsSound'
         /\ on # "entry.released" => DutyKept
<1>1. PICK batch : /\ charges' = charges \o batch /\ Batch(batch, on)
                   /\ batch = <<>> \/ Costly(batch)
                   /\ batch = <<>> \/ ~Accrued(on)
  BY TriggerBatch DEF BooksInv
<1>2. Len(invoices) \in Nat
  BY LenProperties DEF BooksInv, InvoicesSound
<1>3. ChargesSound' /\ GrewBy(batch)
  BY <1>1, <1>2, ChargesGrow DEF BooksInv
<1>4. \A k \in DOMAIN batch : batch[k].invoice = 0 /\ ~batch[k].disputed
  BY <1>1 DEF Batch
<1>5. InvoicesSound'
  BY <1>3, <1>4, InvoicesAlone DEF BooksInv
<1>6. FindingsSound'
  BY <1>3, <1>4, FindingsGrow DEF BooksInv
<1>7. on # "entry.released" => DutyKept
  BY <1>1, <1>3, DutyGrew
<1> QED BY <1>3, <1>5, <1>6, <1>7

LEMMA ReleaseEntryStep ==
  ASSUME BooksInv, NEW user \in Seats, ReleaseEntry(user)
  PROVE  BooksInv'
<1> USE DEF ReleaseEntry
<1>1. /\ entry'.status = "RELEASED" /\ IsEntry(entry') /\ entry'.rate = entry.rate
      /\ entry'.late = entry.late /\ entry'.rate \in Nat
  BY DEF BooksInv, ConsoleShape, IsEntry
<1>2. entry' # NoEntry /\ entry # NoEntry
  BY <1>1 DEF NoEntry
<1>3. /\ IsShipment(shipment') /\ shipment'.boxes = shipment.boxes
      /\ shipment'.discharged = shipment.discharged /\ Booked /\ Booked'
  BY DEF BooksInv, ConsoleShape, IsShipment, Sees, Booked, Unbooked
<1>4. /\ shipment.boxes \in Nat \ {0} /\ shipment.discharged \in Int /\ hours.now \in Nat
  BY <1>3 DEF BooksInv, ConsoleShape
<1>5. ConsoleShape'
  BY <1>1, <1>2, <1>3 DEF BooksInv, ConsoleShape
<1>6. Payable(entry') \in Nat
  BY <1>1, <1>4, PayableNat
<1>7. ChargesSound' /\ InvoicesSound' /\ FindingsSound'
  <2> DEFINE e == entry'
  <2>1. AccrueFor("entry.released", shipment, e, hours.now) /\ Payable(e) \in Nat
    BY <1>6
  <2> HIDE DEF e
  <2> QED BY <1>4, <2>1, AccrueForKeeps, SameClock
<1>8. ClearedSound'
  <2>1. charges' = charges \o (IF Accrued("entry.released") THEN <<>> ELSE AtRelease(entry'))
    BY DEF AccrueFor
  <2> QED BY <1>1, <1>2, <1>3, <1>4, <2>1, ClearedReleased DEF BooksInv, EntryKept
<1> QED BY <1>5, <1>7, <1>8 DEF BooksInv

LEMMA AdvanceStep ==
  ASSUME BooksInv, NEW user \in Seats, Advance(user)
  PROVE  BooksInv'
<1> DEFINE type == Lifecycle[shipment.step + 1]
           now == hours.now + 14
           moved == [shipment EXCEPT !.step = @ + 1, !.events = @ \cup {type},
                       !.discharged = IF type = "container.discharged" THEN now ELSE @,
                       !.gateOut = IF type = "container.gated_out" THEN now ELSE @,
                       !.emptied = IF type = "pod.confirmed" THEN now + 48 ELSE @]
           e == MoveEntry(entry, type)
<1>1. /\ shipment' = moved /\ hours' = [hours EXCEPT !.now = now] /\ entry' = e
      /\ AccrueFor(type, moved, e, now) /\ Booked
      /\ UNCHANGED <<form, invoices, payments, exceptions, audited>>
  BY DEF Advance, May
<1>2. hours.now \in Nat /\ now \in Nat /\ hours.now <= now /\ hours'.now = now
      /\ hours' = [now |-> hours'.now, ticks |-> hours'.ticks]
  BY <1>1 DEF BooksInv, ConsoleShape
<1> HIDE DEF now, type
<1>3. /\ IsShipment(moved) /\ moved.boxes = shipment.boxes /\ moved.discharged \in Int
      /\ moved.boxes \in Nat \ {0} /\ moved # Unbooked
  <2>1. shipment.boxes \in Nat /\ shipment.boxes > 0 /\ IsShipment(shipment) /\ shipment.discharged \in Int
    BY <1>1 DEF BooksInv, ConsoleShape
  <2> DEFINE step == shipment.step + 1
             events == shipment.events \cup {type}
             discharged == IF type = "container.discharged" THEN now ELSE shipment.discharged
             gateOut == IF type = "container.gated_out" THEN now ELSE shipment.gateOut
             emptied == IF type = "pod.confirmed" THEN now + 48 ELSE shipment.emptied
             zero == [shipment EXCEPT !.step = step]
             one == [zero EXCEPT !.events = events]
             two == [one EXCEPT !.discharged = discharged]
             three == [two EXCEPT !.gateOut = gateOut]
             after == [three EXCEPT !.emptied = emptied]
  <2>a. moved = after
    OBVIOUS
  <2> HIDE DEF moved, step, events, discharged, gateOut, emptied
  <2>0. zero.boxes = shipment.boxes /\ IsShipment(zero) /\ zero.discharged = shipment.discharged
    BY <2>1 DEF IsShipment
  <2> HIDE DEF zero
  <2>b. one.boxes = shipment.boxes /\ IsShipment(one) /\ one.discharged = shipment.discharged
    BY <2>0 DEF IsShipment
  <2> HIDE DEF one
  <2>c. two.boxes = shipment.boxes /\ IsShipment(two) /\ two.discharged = discharged
    BY <2>b DEF IsShipment
  <2> HIDE DEF two
  <2>d. three.boxes = shipment.boxes /\ IsShipment(three) /\ three.discharged = discharged
    BY <2>c DEF IsShipment
  <2> HIDE DEF three
  <2>2. after.boxes = shipment.boxes /\ IsShipment(after) /\ after.discharged = discharged
    BY <2>d DEF IsShipment
  <2> HIDE DEF after
  <2> QED BY <1>2, <2>1, <2>a, <2>2 DEF Unbooked, discharged
<1>4. /\ IsEntry(e) /\ e.rate = entry.rate /\ e.late = entry.late /\ e.rate \in Nat
      /\ e = NoEntry <=> entry = NoEntry
      /\ e # NoEntry => e.status \in {"DRAFT", "SUBMITTED", "RELEASED"}
      /\ e.status = "RELEASED" => entry.status = "RELEASED" \/ type = "entry.released"
  BY DEF MoveEntry, NoEntry, IsEntry, BooksInv, ConsoleShape
<1> HIDE DEF moved, e
<1>5. ConsoleShape'
  BY <1>1, <1>2, <1>3, <1>4 DEF BooksInv, ConsoleShape, Booked
<1>6. Payable(e) \in Nat
  BY <1>4, PayableNat DEF BooksInv, ConsoleShape
<1>7. EntryKept
  BY <1>1, <1>3, <1>4 DEF EntryKept
<1>8. /\ ChargesSound' /\ InvoicesSound' /\ FindingsSound'
      /\ type # "entry.released" => DutyKept
  <2>1. hours.now' \in Nat /\ hours.now <= hours.now' /\ now \in Int
    BY <1>2
  <2> QED BY <1>1, <1>3, <1>6, <2>1, AccrueForKeeps
<1>9. ClearedSound'
  <2>1. CASE type = "entry.released"
    <3>1. charges' = charges \o (IF Accrued("entry.released") THEN <<>> ELSE AtRelease(entry'))
      BY <1>1, <2>1 DEF AccrueFor
    <3>2. shipment.boxes \in Nat /\ entry'.rate \in Nat
      BY <1>1, <1>4 DEF BooksInv, ConsoleShape
    <3> QED BY <1>7, <3>1, <3>2, ClearedReleased DEF BooksInv
  <2>2. CASE type # "entry.released"
    BY <1>1, <1>4, <1>7, <1>8, <2>2, ClearedKept DEF BooksInv
  <2> QED BY <2>1, <2>2
<1> QED BY <1>5, <1>8, <1>9 DEF BooksInv

LEMMA MappedIsSeq ==
  ASSUME NEW s, IsSeq(s), NEW t, t = [i \in DOMAIN s |-> t[i]]
  PROVE  IsSeq(t) /\ DOMAIN t = DOMAIN s /\ Len(t) = Len(s)
<1>1. Len(s) \in Nat /\ DOMAIN s = 1 .. Len(s)
  BY SeqFacts
<1>2. t \in [1 .. Len(s) -> {t[i] : i \in 1 .. Len(s)}]
  BY <1>1
<1>3. t \in Seq({t[i] : i \in 1 .. Len(s)})
  BY <1>1, <1>2
<1>4. DOMAIN t = 1 .. Len(s) /\ Len(t) = Len(s)
  BY <1>1, <1>2, <1>3, LenProperties
<1> QED BY <1>1, <1>3, <1>4 DEF IsSeq

\* Charges that are put on an invoice, or held back, cost what they did.
LEMMA ChargesMapped ==
  ASSUME ChargesSound, charges' = [i \in DOMAIN charges |-> charges'[i]],
         \A i \in DOMAIN charges :
           /\ IsCharge(charges'[i]) /\ charges'[i].code = charges[i].code
           /\ charges'[i].on = charges[i].on /\ charges'[i].sell = charges[i].sell
           /\ charges'[i].vatBps = charges[i].vatBps
           /\ charges'[i].invoice \in 0 .. Len(invoices')
           /\ \A j \in DOMAIN charges :
                charges[i].invoice = charges[j].invoice => charges'[i].invoice = charges'[j].invoice
  PROVE  ChargesSound' /\ DutyKept
<1>1. IsSeq(charges') /\ DOMAIN charges' = DOMAIN charges
  BY MappedIsSeq DEF ChargesSound
<1>2. ASSUME NEW i \in DOMAIN charges
      PROVE  /\ ChargeSound(charges'[i]) /\ charges'[i].invoice \in 0 .. Len(invoices')
             /\ \E j \in DOMAIN charges :
                  charges'[j].invoice = charges'[i].invoice /\ charges'[j].sell > 0
  <2>1. PICK j \in DOMAIN charges : charges[j].invoice = charges[i].invoice /\ charges[j].sell > 0
    BY DEF ChargesSound
  <2>2. ChargeSound(charges[i])
    BY DEF ChargesSound
  <2> QED BY <2>1, <2>2 DEF ChargeSound
<1>3. \A i, j \in DOMAIN charges :
        charges'[i].code = charges'[j].code /\ charges'[i].code \in DOMAIN OnOf => i = j
  BY DEF ChargesSound
<1>4. ChargesSound'
  BY <1>1, <1>2, <1>3 DEF ChargesSound
<1>5. DutyKept
  BY <1>1 DEF DutyKept, AccruedFor, Accrued
<1> QED BY <1>4, <1>5

LEMMA ShapeAlone ==
  ASSUME ConsoleShape, Booked, UNCHANGED <<form, shipment, entry, hours>>
  PROVE  ConsoleShape' /\ EntryKept
BY DEF ConsoleShape, Booked, IsShipment, IsEntry, EntryKept

\* What the lines of an invoice come to is a sum of what each costs.
LEMMA CostsNat ==
  ASSUME ChargesSound
  PROVE  /\ \A i \in DOMAIN charges : Sells[i] \in Nat /\ Vats[i] \in Nat
         /\ \A i \in DOMAIN charges : Sells[i] = charges[i].sell
<1>1. \A i \in DOMAIN charges : charges[i].sell \in Nat /\ charges[i].vatBps \in Nat
  BY DEF ChargesSound, ChargeSound
<1>2. \A i \in DOMAIN charges : Sells[i] = charges[i].sell
  BY DEF Sells
<1>3. \A i \in DOMAIN charges : Vats[i] = R!LineVat(charges[i].sell, charges[i].vatBps)
  BY DEF Vats
<1> QED BY <1>1, <1>2, <1>3, VatNat

LEMMA SubtotalAndVat ==
  ASSUME ChargesSound, NEW n, LinesOf(n) # {}
  PROVE  /\ SumFunctionOnSet(Sells, LinesOf(n)) \in Nat \ {0}
         /\ SumFunctionOnSet(Vats, LinesOf(n)) \in Nat
         /\ LineSum(n) = SumFunctionOnSet(Sells, LinesOf(n)) + SumFunctionOnSet(Vats, LinesOf(n))
<1> DEFINE S == LinesOf(n)
           both == [i \in DOMAIN charges |-> Sells[i] + Vats[i]]
<1>1. IsFiniteSet(S) /\ S \subseteq DOMAIN charges
  BY ChargesFinite, FS_Subset DEF LinesOf
<1>2. PICK i \in S : charges[i].sell > 0
  BY DEF ChargesSound, LinesOf
<1>3. \A x \in S : Sells[x] \in Nat /\ Vats[x] \in Nat /\ both[x] = Sells[x] + Vats[x]
  BY <1>1, CostsNat
<1>4. Sells[i] > 0
  BY <1>1, <1>2, CostsNat
<1>5. LineSum(n) = SumFunctionOnSet(both, S)
  BY DEF LineSum
<1> HIDE DEF S, both
<1>6. SumFunctionOnSet(Sells, S) \in Nat /\ Sells[i] <= SumFunctionOnSet(Sells, S)
  BY <1>1, <1>3, SumNat
<1>7. SumFunctionOnSet(Vats, S) \in Nat
  BY <1>1, <1>3, SumNat
<1>8. SumFunctionOnSet(both, S) = SumFunctionOnSet(Sells, S) + SumFunctionOnSet(Vats, S)
  BY <1>1, <1>3, SumPlus
<1>9. SumFunctionOnSet(Sells, S) # 0
  BY <1>2, <1>3, <1>4, <1>6
<1> QED BY <1>5, <1>6, <1>7, <1>8, <1>9 DEF S

LEMMA IssueInvoiceStep ==
  ASSUME BooksInv, NEW user \in Seats, IssueInvoice(user)
  PROVE  BooksInv'
<1>0. PICK last \in Nat : last = Len(invoices)
  BY LenProperties DEF BooksInv, InvoicesSound
<1> DEFINE subtotal == SumFunctionOnSet(Sells, LinesOf(0))
           vat == SumFunctionOnSet(Vats, LinesOf(0))
           new == [status |-> "ISSUED", subtotal |-> subtotal, vat |-> vat,
                   total |-> subtotal + vat, due |-> hours.now + Terms]
<1>1. /\ Booked /\ LinesOf(0) # {} /\ invoices' = Append(invoices, new)
      /\ charges' = [i \in DOMAIN charges |->
           IF charges[i].invoice = 0 THEN [charges[i] EXCEPT !.invoice = last + 1] ELSE charges[i]]
      /\ UNCHANGED <<form, shipment, entry, payments, exceptions, hours, audited>>
  BY <1>0 DEF IssueInvoice, May
<1>2. subtotal \in Nat \ {0} /\ vat \in Nat /\ LineSum(0) = subtotal + vat
  BY <1>1, SubtotalAndVat DEF BooksInv
<1> HIDE DEF subtotal, vat
<1>3. new \in InvoiceRecords /\ new.total = subtotal + vat /\ new.status = "ISSUED" /\ new.total > 0
  <2>1. hours.now + Terms \in Nat
    BY SeededBook DEF BooksInv, ConsoleShape
  <2> QED BY <1>2, <2>1 DEF InvoiceRecords
<1> HIDE DEF new
<1>4. /\ last \in Nat /\ DOMAIN invoices = 1 .. last
      /\ invoices' \in Seq(InvoiceRecords) /\ DOMAIN invoices' = 1 .. last + 1 /\ Len(invoices') = last + 1
      /\ invoices'[last + 1] = new
      /\ \A n \in 1 .. last : invoices'[n] = invoices[n]
  <2>1. invoices \in Seq(InvoiceRecords)
    BY DEF BooksInv, InvoicesSound
  <2> QED BY <1>0, <1>1, <1>3, <2>1, AppendProperties, LenProperties
<1>5. ASSUME NEW i \in DOMAIN charges
      PROVE  /\ IsCharge(charges'[i]) /\ charges'[i].code = charges[i].code
             /\ charges'[i].on = charges[i].on /\ charges'[i].sell = charges[i].sell
             /\ charges'[i].vatBps = charges[i].vatBps /\ charges'[i].disputed = charges[i].disputed
             /\ charges'[i].invoice = IF charges[i].invoice = 0 THEN last + 1 ELSE charges[i].invoice
  <2>1. IsCharge(charges[i])
    BY DEF BooksInv, ChargesSound, ChargeSound
  <2>2. CASE charges[i].invoice = 0
    <3>1. charges'[i] = [charges[i] EXCEPT !.invoice = last + 1]
      BY <1>1, <2>2
    <3> QED BY <2>1, <2>2, <3>1 DEF IsCharge
  <2>3. CASE charges[i].invoice # 0
    <3>1. charges'[i] = charges[i]
      BY <1>1, <2>3
    <3> QED BY <2>1, <2>3, <3>1
  <2> QED BY <2>2, <2>3
<1>6. \A i \in DOMAIN charges : charges[i].invoice \in 0 .. last
  BY <1>0 DEF BooksInv, ChargesSound
<1>7. charges' = [i \in DOMAIN charges |-> charges'[i]] /\ DOMAIN charges' = DOMAIN charges
  BY <1>1
<1>8. ChargesSound' /\ DutyKept
  BY <1>4, <1>5, <1>6, <1>7, ChargesMapped DEF BooksInv
<1>9. \A n \in 1 .. last : LinesOf(n)' = LinesOf(n)
  BY <1>4, <1>5, <1>6, <1>7 DEF LinesOf
<1>10. LinesOf(last + 1)' = LinesOf(0)
  <2>1. \A i \in DOMAIN charges : charges'[i].invoice = last + 1 <=> charges[i].invoice = 0
    BY <1>4, <1>5, <1>6
  <2> QED BY <1>7, <2>1 DEF LinesOf
<1>11. \A n : \A i \in LinesOf(n) : /\ i \in DOMAIN charges'
                                    /\ charges'[i].sell = charges[i].sell
                                    /\ charges'[i].vatBps = charges[i].vatBps
  BY <1>5, <1>7 DEF LinesOf
<1>12. LineSum(last + 1)' = LineSum(0)
  BY <1>10, <1>11, LineSumKept DEF BooksInv
<1>13. \A n \in 1 .. last : LineSum(n)' = LineSum(n)
  BY <1>9, <1>11, LineSumKept DEF BooksInv
<1>14. InvoicesFoot'
  <2> SUFFICES ASSUME NEW n \in 1 .. last + 1
               PROVE  LinesOf(n)' # {} /\ invoices'[n].total = LineSum(n)'
    BY <1>4 DEF InvoicesFoot, LineSum
  <2>1. CASE n = last + 1
    BY <1>1, <1>2, <1>3, <1>4, <1>10, <1>12, <2>1
  <2>2. CASE n # last + 1
    <3>1. n \in 1 .. last
      BY <1>4, <2>2
    <3>2. LinesOf(n) # {} /\ invoices[n].total = LineSum(n)
      BY <1>4, <3>1 DEF BooksInv, InvoicesSound, InvoicesFoot, LineSum
    <3> QED BY <1>4, <1>9, <1>13, <3>1, <3>2
  <2> QED BY <2>1, <2>2
<1>15. \A n : PaidOn(n)' = PaidOn(n)
  BY <1>1 DEF PaidOn
<1>16. PaidOn(last + 1) = 0
  <2> DEFINE credited == {p \in payments : p.invoice = last + 1}
  <2>1. credited = {}
    BY <1>4 DEF BooksInv, InvoicesSound
  <2>2. PaidOn(last + 1) = SumFunctionOnSet([p \in credited |-> p.amount], credited)
    BY DEF PaidOn
  <2> QED BY <2>1, <2>2, SumOfNone
<1>17. SettledByTotal'
  <2> SUFFICES ASSUME NEW n \in 1 .. last + 1
               PROVE  /\ (invoices'[n].status = "PAID") = (PaidOn(n)' >= invoices'[n].total)
                      /\ invoices'[n].status = "ISSUED" => PaidOn(n)' = 0
                      /\ invoices'[n].status = "OVERDUE" => invoices'[n].due < hours'.now
    BY <1>4 DEF SettledByTotal
  <2>1. CASE n = last + 1
    <3>1. PaidOn(n)' = 0 /\ invoices'[n].total \in Nat /\ invoices'[n].total > 0 /\ invoices'[n].status = "ISSUED"
      BY <1>2, <1>3, <1>4, <1>15, <1>16, <2>1
    <3>2. ~(PaidOn(n)' >= invoices'[n].total)
      BY <3>1
    <3> QED BY <3>1, <3>2
  <2>2. CASE n # last + 1
    <3>1. n \in 1 .. last
      BY <1>4, <2>2
    <3>2. hours' = hours
      BY <1>1
    <3> QED BY <1>4, <1>15, <3>1, <3>2 DEF BooksInv, InvoicesSound, SettledByTotal
  <2> QED BY <2>1, <2>2
<1>18. InvoicesSound'
  BY <1>1, <1>4, <1>14, <1>17 DEF BooksInv, InvoicesSound
<1>19. FindingsSound'
  BY <1>1, <1>5, <1>7 DEF BooksInv, FindingsSound, FindingsKept
<1>20. ConsoleShape' /\ EntryKept
  BY <1>1, ShapeAlone DEF BooksInv
<1>21. ClearedSound'
  BY <1>1, <1>8, <1>20, ClearedKept DEF BooksInv
<1> QED BY <1>8, <1>18, <1>19, <1>20, <1>21 DEF BooksInv

\* The charges stand, and every invoice is for what it was.
LEMMA FootStands ==
  ASSUME ChargesSound, InvoicesFoot, charges' = charges, DOMAIN invoices' = DOMAIN invoices,
         \A n \in DOMAIN invoices : invoices'[n].total = invoices[n].total
  PROVE  InvoicesFoot'
<1>1. \A n : LinesOf(n)' = LinesOf(n)
  BY DEF LinesOf
<1>2. \A n : LineSum(n)' = LineSum(n)
  BY DEF LineSum, LinesOf, Sells, Vats
<1> QED BY <1>1, <1>2 DEF InvoicesFoot, LineSum

LEMMA PayStep ==
  ASSUME BooksInv, NEW user \in Seats, NEW n \in DOMAIN invoices, NEW ref, Pay(user, n, ref)
  PROVE  BooksInv'
<1> DEFINE verdict == IF PaidOn(n)' >= invoices[n].total THEN "PAID"
                     ELSE IF invoices[n].due < hours.now THEN "OVERDUE" ELSE "PART_PAID"
           credit == [invoice |-> n, ref |-> ref, amount |-> Half(n)]
<1>1. /\ Booked /\ payments' = payments \cup {credit}
      /\ invoices' = [invoices EXCEPT ![n].status = verdict]
      /\ UNCHANGED <<form, shipment, entry, charges, exceptions, hours, audited>>
  BY DEF Pay, May
<1>2. verdict \in {"ISSUED", "PART_PAID", "OVERDUE", "PAID"}
  OBVIOUS
<1>3. invoices \in Seq(InvoiceRecords) /\ invoices[n] \in InvoiceRecords
  BY ElementOfSeq DEF BooksInv, InvoicesSound
<1>4. /\ (verdict = "PAID") = (PaidOn(n)' >= invoices[n].total)
      /\ verdict # "ISSUED"
      /\ verdict = "OVERDUE" => invoices[n].due < hours.now
  OBVIOUS
<1>5. \A m : m # n => PaidOn(m)' = PaidOn(m)
  <2> SUFFICES ASSUME NEW m, m # n PROVE PaidOn(m)' = PaidOn(m)
    OBVIOUS
  <2>1. {p \in payments' : p.invoice = m} = {p \in payments : p.invoice = m}
    BY <1>1
  <2> QED BY <2>1 DEF PaidOn
<1>6. credit.invoice = n
  OBVIOUS
<1> HIDE DEF verdict, credit
<1>7. /\ invoices' \in Seq(InvoiceRecords) /\ DOMAIN invoices' = DOMAIN invoices
      /\ Len(invoices') = Len(invoices)
      /\ invoices'[n] = [invoices[n] EXCEPT !.status = verdict]
      /\ \A m \in DOMAIN invoices : m # n => invoices'[m] = invoices[m]
  <2> DEFINE r == [invoices[n] EXCEPT !.status = verdict]
  <2>1. r \in InvoiceRecords
    BY <1>2, <1>3 DEF InvoiceRecords
  <2>2. invoices' = [invoices EXCEPT ![n] = r]
    BY <1>1
  <2> HIDE DEF r
  <2>3. n \in 1 .. Len(invoices)
    BY <1>3
  <2> QED BY <1>3, <2>1, <2>2, <2>3, ExceptSeq DEF r
<1>8. /\ invoices'[n].status = verdict /\ invoices'[n].total = invoices[n].total
      /\ invoices'[n].due = invoices[n].due
  BY <1>3, <1>7 DEF InvoiceRecords
<1>9. InvoicesFoot'
  BY <1>1, <1>7, <1>8, FootStands DEF BooksInv, InvoicesSound
<1>10. SettledByTotal'
  <2> SUFFICES ASSUME NEW m \in DOMAIN invoices
               PROVE  /\ (invoices'[m].status = "PAID") = (PaidOn(m)' >= invoices'[m].total)
                      /\ invoices'[m].status = "ISSUED" => PaidOn(m)' = 0
                      /\ invoices'[m].status = "OVERDUE" => invoices'[m].due < hours'.now
    BY <1>7 DEF SettledByTotal
  <2>1. hours' = hours
    BY <1>1
  <2>2. CASE m = n
    BY <1>4, <1>8, <2>1, <2>2
  <2>3. CASE m # n
    BY <1>5, <1>7, <2>1, <2>3 DEF BooksInv, InvoicesSound, SettledByTotal
  <2> QED BY <2>2, <2>3
<1>11. InvoicesSound'
  BY <1>1, <1>6, <1>7, <1>9, <1>10 DEF BooksInv, InvoicesSound
<1>12. ChargesSound' /\ DutyKept
  BY <1>1, <1>7, ChargesAlone DEF BooksInv
<1>13. ConsoleShape' /\ EntryKept
  BY <1>1, ShapeAlone DEF BooksInv
<1>14. ClearedSound'
  BY <1>1, <1>12, <1>13, ClearedKept DEF BooksInv
<1>15. FindingsSound'
  BY <1>1, FindingsAlone DEF BooksInv
<1> QED BY <1>11, <1>12, <1>13, <1>14, <1>15 DEF BooksInv

LEMMA TickStep == BooksInv /\ Tick => BooksInv'
<1> SUFFICES ASSUME BooksInv, Tick PROVE BooksInv'
  OBVIOUS
<1> DEFINE late(n) == invoices[n].status \in {"ISSUED", "PART_PAID"} /\ invoices[n].due < hours.now + Hours
<1>1. /\ hours' = [now |-> hours.now + Hours, ticks |-> hours.ticks + 1]
      /\ invoices' = [n \in DOMAIN invoices |->
           IF late(n) THEN [invoices[n] EXCEPT !.status = "OVERDUE"] ELSE invoices[n]]
      /\ UNCHANGED <<form, shipment, entry, charges, payments, exceptions, audited>>
  BY DEF Tick
<1>2. /\ hours'.now = hours.now + Hours /\ hours.now \in Nat /\ Hours \in Nat
      /\ hours'.now \in Nat /\ hours.now <= hours'.now
      /\ hours' = [now |-> hours'.now, ticks |-> hours'.ticks]
  BY <1>1, SeededBook DEF BooksInv, ConsoleShape
<1>3. /\ invoices \in Seq(InvoiceRecords) /\ Len(invoices) \in Nat /\ DOMAIN invoices = 1 .. Len(invoices)
      /\ \A n \in DOMAIN invoices : invoices[n] \in InvoiceRecords
  BY ElementOfSeq DEF BooksInv, InvoicesSound
<1>4. ASSUME NEW n \in DOMAIN invoices
      PROVE  /\ invoices'[n] \in InvoiceRecords
             /\ invoices'[n].status = IF late(n) THEN "OVERDUE" ELSE invoices[n].status
             /\ invoices'[n].total = invoices[n].total /\ invoices'[n].due = invoices[n].due
  <2>1. CASE late(n)
    <3>1. invoices'[n] = [invoices[n] EXCEPT !.status = "OVERDUE"]
      BY <1>1, <2>1
    <3> QED BY <1>3, <2>1, <3>1 DEF InvoiceRecords
  <2>2. CASE ~late(n)
    <3>1. invoices'[n] = invoices[n]
      BY <1>1, <2>2
    <3> QED BY <1>3, <2>2, <3>1
  <2> QED BY <2>1, <2>2
<1>5. invoices' \in Seq(InvoiceRecords) /\ DOMAIN invoices' = DOMAIN invoices /\ Len(invoices') = Len(invoices)
  <2>1. DOMAIN invoices' = 1 .. Len(invoices) /\ invoices' = [n \in 1 .. Len(invoices) |-> invoices'[n]]
    BY <1>1, <1>3
  <2>2. invoices' \in Seq(InvoiceRecords)
    BY <1>3, <1>4, <2>1
  <2> QED BY <1>3, <2>1, <2>2, LenProperties
<1>6. InvoicesFoot'
  BY <1>1, <1>4, <1>5, FootStands DEF BooksInv, InvoicesSound
<1>7. SettledByTotal'
  <2> SUFFICES ASSUME NEW n \in DOMAIN invoices
               PROVE  /\ (invoices'[n].status = "PAID") = (PaidOn(n)' >= invoices'[n].total)
                      /\ invoices'[n].status = "ISSUED" => PaidOn(n)' = 0
                      /\ invoices'[n].status = "OVERDUE" => invoices'[n].due < hours'.now
    BY <1>5 DEF SettledByTotal
  <2>1. PaidOn(n)' = PaidOn(n)
    BY <1>1 DEF PaidOn
  <2>2. /\ (invoices[n].status = "PAID") = (PaidOn(n) >= invoices[n].total)
        /\ invoices[n].status = "ISSUED" => PaidOn(n) = 0
        /\ invoices[n].status = "OVERDUE" => invoices[n].due < hours.now
    BY DEF BooksInv, InvoicesSound, SettledByTotal
  <2>3. invoices[n].due \in Nat
    BY <1>3 DEF InvoiceRecords
  <2>4. CASE late(n)
    <3>1. invoices'[n].status = "OVERDUE" /\ invoices[n].status # "PAID"
      BY <1>4, <2>4
    <3>2. invoices'[n].due < hours'.now
      BY <1>2, <1>4, <2>4
    <3> QED BY <1>4, <2>1, <2>2, <3>1, <3>2
  <2>5. CASE ~late(n)
    <3>1. invoices'[n].status = invoices[n].status
      BY <1>4, <2>5
    <3>2. invoices[n].due < hours.now => invoices'[n].due < hours'.now
      BY <1>2, <1>4, <2>3
    <3> QED BY <1>4, <2>1, <2>2, <3>1, <3>2
  <2> QED BY <2>4, <2>5
<1>8. InvoicesSound'
  BY <1>1, <1>5, <1>6, <1>7 DEF BooksInv, InvoicesSound
<1>9. ChargesSound' /\ DutyKept
  BY <1>1, <1>5, ChargesAlone DEF BooksInv
<1>10. ConsoleShape' /\ EntryKept
  BY <1>1, <1>2 DEF BooksInv, ConsoleShape, IsShipment, IsEntry, Booked, EntryKept
<1>11. ClearedSound'
  BY <1>1, <1>9, <1>10, ClearedKept DEF BooksInv
<1>12. FindingsSound'
  BY <1>1, FindingsAlone DEF BooksInv
<1> QED BY <1>8, <1>9, <1>10, <1>11, <1>12 DEF BooksInv

LEMMA RunAuditStep ==
  ASSUME BooksInv, NEW user \in Seats, NEW n \in DOMAIN invoices, RunAudit(user, n)
  PROVE  BooksInv'
<1> DEFINE found == R!Audit(AuditInput(n))
           Key(f) == <<n, f.code, f.charge>>
           noted == {Key(f) : f \in found}
           Status(key) == IF key \in DOMAIN exceptions THEN exceptions[key].status ELSE "OPEN"
           Variance(key) == (CHOOSE f \in found : Key(f) = key).variance
           Finding(key) ==
             CASE key \in noted -> [variance |-> Variance(key), status |-> Status(key)]
               [] key \notin noted /\ key[1] = n /\ exceptions[key].status = "OPEN" ->
                    [exceptions[key] EXCEPT !.status = "RESOLVED"]
               [] OTHER -> exceptions[key]
<1>1. /\ Booked /\ exceptions' = [key \in DOMAIN exceptions \cup noted |-> Finding(key)]
      /\ audited' = [audited EXCEPT
           !.found = [m \in DOMAIN @ \cup {n} |-> IF m = n THEN noted ELSE @[m]], !.count = @ + 1]
      /\ UNCHANGED <<form, shipment, entry, charges, invoices, payments, hours>>
  BY DEF RunAudit, May
<1>2. \A key \in noted : key[1] = n
  OBVIOUS
<1> HIDE DEF found, Variance
<1>3. \A key \in DOMAIN exceptions : IsFinding(exceptions[key])
  BY DEF BooksInv, FindingsSound
<1>4. \A key \in noted : IsFinding(Finding(key)) /\ Finding(key).status = Status(key)
  <2> HIDE DEF noted
  <2> QED BY DEF IsFinding
<1> HIDE DEF noted
<1>5. \A key \in DOMAIN exceptions :
        key \notin noted /\ key[1] = n /\ exceptions[key].status = "OPEN" =>
          IsFinding(Finding(key)) /\ Finding(key).status = "RESOLVED"
  BY <1>3 DEF IsFinding
<1>6. \A key \in DOMAIN exceptions :
        key \notin noted /\ ~(key[1] = n /\ exceptions[key].status = "OPEN") =>
          Finding(key) = exceptions[key]
  OBVIOUS
<1>7. /\ DOMAIN exceptions' = DOMAIN exceptions \cup noted
      /\ \A key \in DOMAIN exceptions' : exceptions'[key] = Finding(key)
      /\ exceptions' = [key \in DOMAIN exceptions' |-> exceptions'[key]]
  <2> HIDE DEF Finding
  <2> QED BY <1>1
<1> HIDE DEF Finding
<1>8. \A key \in DOMAIN exceptions' : IsFinding(exceptions'[key])
  BY <1>3, <1>4, <1>5, <1>6, <1>7
<1>9. /\ audited' = [found |-> audited'.found, count |-> audited'.count, decided |-> audited'.decided]
      /\ audited'.found = [m \in DOMAIN audited.found \cup {n} |-> IF m = n THEN noted ELSE audited.found[m]]
  <2> DEFINE more == [m \in DOMAIN audited.found \cup {n} |-> IF m = n THEN noted ELSE audited.found[m]]
             once == audited.count + 1
  <2>1. audited' = [audited EXCEPT !.found = more, !.count = once]
    BY <1>1
  <2>2. audited = [found |-> audited.found, count |-> audited.count, decided |-> audited.decided]
    BY DEF BooksInv, FindingsSound
  <2> HIDE DEF more, once
  <2>3. audited' = [found |-> more, count |-> once, decided |-> audited.decided]
    BY <2>1, <2>2
  <2>4. audited'.found = more
    BY <2>3
  <2> QED BY <2>3, <2>4 DEF more
<1>10. ASSUME NEW m \in DOMAIN audited'.found
       PROVE  /\ audited'.found[m] \subseteq DOMAIN exceptions'
              /\ \A key \in DOMAIN exceptions' :
                   key[1] = m /\ exceptions'[key].status = "OPEN" => key \in audited'.found[m]
  <2>1. CASE m = n
    <3>1. audited'.found[m] = noted
      BY <1>9, <2>1
    <3>2. \A key \in DOMAIN exceptions' :
            key[1] = n /\ key \notin noted => exceptions'[key].status # "OPEN"
      BY <1>5, <1>6, <1>7
    <3> QED BY <1>7, <2>1, <3>1, <3>2
  <2>2. CASE m # n
    <3>1. m \in DOMAIN audited.found /\ audited'.found[m] = audited.found[m]
      BY <1>9, <2>2
    <3>2. /\ audited.found[m] \subseteq DOMAIN exceptions
          /\ \A key \in DOMAIN exceptions :
               key[1] = m /\ exceptions[key].status = "OPEN" => key \in audited.found[m]
      BY <3>1 DEF BooksInv, FindingsSound, FindingsKept
    <3>3. \A key \in DOMAIN exceptions' :
            key[1] = m => key \in DOMAIN exceptions /\ exceptions'[key] = exceptions[key]
      BY <1>2, <1>6, <1>7, <2>2
    <3> QED BY <1>7, <3>1, <3>2, <3>3
  <2> QED BY <2>1, <2>2
<1>11. ASSUME NEW i \in DOMAIN charges, charges[i].disputed
       PROVE  \E key \in DOMAIN exceptions' : key[3] = i /\ exceptions'[key].status = "DISPUTED"
  <2>1. PICK key \in DOMAIN exceptions : key[3] = i /\ exceptions[key].status = "DISPUTED"
    BY <1>11 DEF BooksInv, FindingsSound, FindingsKept
  <2>2. key \in DOMAIN exceptions' /\ exceptions'[key].status = "DISPUTED"
    BY <1>4, <1>6, <1>7, <2>1
  <2> QED BY <2>1, <2>2
<1>12. FindingsSound'
  BY <1>1, <1>7, <1>8, <1>9, <1>10, <1>11 DEF FindingsSound, FindingsKept
<1>13. InvoicesSound' /\ ChargesSound' /\ DutyKept
  BY <1>1, LedgerAlone, SameClock
<1>14. ConsoleShape' /\ EntryKept
  BY <1>1, ShapeAlone DEF BooksInv
<1>15. ClearedSound'
  BY <1>1, <1>13, <1>14, ClearedKept DEF BooksInv
<1> QED BY <1>12, <1>13, <1>14, <1>15 DEF BooksInv

LEMMA DecideFindingStep ==
  ASSUME BooksInv, NEW user \in Seats, NEW key \in DOMAIN exceptions,
         NEW verdict \in {"DISPUTED", "ACCEPTED"}, DecideFinding(user, key, verdict)
  PROVE  BooksInv'
<1> DEFINE held == (verdict = "DISPUTED")
<1>1. /\ Booked /\ exceptions[key].status = "OPEN"
      /\ exceptions' = [exceptions EXCEPT ![key].status = verdict]
      /\ charges' = [i \in DOMAIN charges |->
           IF i = key[3] THEN [charges[i] EXCEPT !.disputed = held] ELSE charges[i]]
      /\ audited' = [audited EXCEPT !.decided = @ + 1]
      /\ UNCHANGED <<form, shipment, entry, invoices, payments, hours>>
  BY DEF DecideFinding, Sees
<1>2. held => verdict = "DISPUTED"
  OBVIOUS
<1> HIDE DEF held
<1>3. /\ \A k \in DOMAIN exceptions : IsFinding(exceptions[k])
      /\ exceptions = [k \in DOMAIN exceptions |-> exceptions[k]]
      /\ audited = [found |-> audited.found, count |-> audited.count, decided |-> audited.decided]
  BY DEF BooksInv, FindingsSound
<1>4. /\ DOMAIN exceptions' = DOMAIN exceptions /\ IsFinding(exceptions'[key])
      /\ exceptions'[key].status = verdict
      /\ \A k \in DOMAIN exceptions : k # key => exceptions'[k] = exceptions[k]
      /\ exceptions' = [k \in DOMAIN exceptions' |-> exceptions'[k]]
  <2> DEFINE r == [exceptions[key] EXCEPT !.status = verdict]
  <2>1. exceptions' = [exceptions EXCEPT ![key] = r]
    BY <1>1
  <2>2. IsFinding(r) /\ r.status = verdict
    BY <1>3 DEF IsFinding
  <2> HIDE DEF r
  <2>3. exceptions' = [k \in DOMAIN exceptions |-> IF k = key THEN r ELSE exceptions[k]]
    BY <1>3, <2>1
  <2> QED BY <2>2, <2>3
<1>5. /\ audited' = [found |-> audited'.found, count |-> audited'.count, decided |-> audited'.decided]
      /\ audited'.found = audited.found
  BY <1>1, <1>3
<1>6. ASSUME NEW i \in DOMAIN charges
      PROVE  /\ IsCharge(charges'[i]) /\ charges'[i].code = charges[i].code
             /\ charges'[i].on = charges[i].on /\ charges'[i].sell = charges[i].sell
             /\ charges'[i].vatBps = charges[i].vatBps /\ charges'[i].invoice = charges[i].invoice
             /\ i # key[3] => charges'[i] = charges[i]
             /\ i = key[3] => charges'[i].disputed = held
  <2>1. IsCharge(charges[i])
    BY DEF BooksInv, ChargesSound, ChargeSound
  <2>2. CASE i = key[3]
    <3>1. charges'[i] = [charges[i] EXCEPT !.disputed = held]
      BY <1>1, <2>2
    <3> QED BY <2>1, <2>2, <3>1 DEF IsCharge
  <2>3. CASE i # key[3]
    <3>1. charges'[i] = charges[i]
      BY <1>1, <2>3
    <3> QED BY <2>1, <2>3, <3>1
  <2> QED BY <2>2, <2>3
<1>7. charges' = [i \in DOMAIN charges |-> charges'[i]] /\ DOMAIN charges' = DOMAIN charges
  BY <1>1
<1>8. \A i \in DOMAIN charges : charges'[i].invoice \in 0 .. Len(invoices')
  BY <1>1, <1>6 DEF BooksInv, ChargesSound
<1>9. ChargesSound' /\ DutyKept
  BY <1>6, <1>7, <1>8, ChargesMapped DEF BooksInv
<1>10. ASSUME NEW i \in DOMAIN charges, charges'[i].disputed
       PROVE  \E k \in DOMAIN exceptions' : k[3] = i /\ exceptions'[k].status = "DISPUTED"
  <2>1. CASE i = key[3]
    <3>1. held
      BY <1>6, <1>10, <2>1
    <3> QED BY <1>2, <1>4, <2>1, <3>1
  <2>2. CASE i # key[3]
    <3>1. charges[i].disputed
      BY <1>6, <1>10, <2>2
    <3>2. PICK k \in DOMAIN exceptions : k[3] = i /\ exceptions[k].status = "DISPUTED"
      BY <3>1 DEF BooksInv, FindingsSound, FindingsKept
    <3>3. k # key
      BY <1>1, <3>2
    <3> QED BY <1>4, <3>2, <3>3
  <2> QED BY <2>1, <2>2
<1>11. \A k \in DOMAIN exceptions' : exceptions'[k].status = "OPEN" => exceptions[k].status = "OPEN"
  BY <1>4
<1>12. FindingsSound'
  <2>1. \A k \in DOMAIN exceptions' : IsFinding(exceptions'[k])
    BY <1>3, <1>4
  <2>2. \A n \in DOMAIN audited'.found :
          /\ audited'.found[n] \subseteq DOMAIN exceptions'
          /\ \A k \in DOMAIN exceptions' :
               k[1] = n /\ exceptions'[k].status = "OPEN" => k \in audited'.found[n]
    BY <1>4, <1>5, <1>11 DEF BooksInv, FindingsSound, FindingsKept
  <2> QED BY <1>4, <1>5, <1>7, <1>10, <2>1, <2>2 DEF FindingsSound, FindingsKept
<1>13. InvoicesSound'
  <2>1. ASSUME NEW n PROVE LinesOf(n)' = LinesOf(n) /\ LineSum(n)' = LineSum(n)
    <3>1. LinesOf(n)' = LinesOf(n)
      BY <1>6, <1>7 DEF LinesOf
    <3>2. \A i \in LinesOf(n) : /\ i \in DOMAIN charges'
                                /\ charges'[i].sell = charges[i].sell
                                /\ charges'[i].vatBps = charges[i].vatBps
      BY <1>6, <1>7 DEF LinesOf
    <3> QED BY <3>1, <3>2, LineSumKept DEF BooksInv
  <2>2. InvoicesFoot'
    <3> SUFFICES ASSUME NEW n \in DOMAIN invoices
                 PROVE  LinesOf(n)' # {} /\ invoices[n].total = LineSum(n)'
      BY <1>1 DEF InvoicesFoot, LineSum
    <3>1. LinesOf(n) # {} /\ invoices[n].total = LineSum(n)
      BY DEF BooksInv, InvoicesSound, InvoicesFoot, LineSum
    <3> QED BY <2>1, <3>1
  <2>3. SettledByTotal'
    BY <1>1, SettledKept, SameClock DEF BooksInv, ConsoleShape, InvoicesSound
  <2> QED BY <1>1, <2>2, <2>3 DEF BooksInv, InvoicesSound
<1>14. ConsoleShape' /\ EntryKept
  BY <1>1, ShapeAlone DEF BooksInv
<1>15. ClearedSound'
  BY <1>1, <1>9, <1>14, ClearedKept DEF BooksInv
<1> QED BY <1>9, <1>12, <1>13, <1>14, <1>15 DEF BooksInv

LEMMA NothingMoves == BooksInv /\ UNCHANGED consoleVars => BooksInv'
<1> SUFFICES ASSUME BooksInv, UNCHANGED consoleVars PROVE BooksInv'
  OBVIOUS
<1> USE DEF consoleVars
<1>1. DutyKept
  BY ChargesAlone DEF BooksInv
<1>2. ConsoleShape'
  BY DEF BooksInv, ConsoleShape, IsShipment, IsEntry, Booked
<1>3. ClearedSound'
  BY <1>1, ClearedKept DEF BooksInv, EntryKept
<1> QED BY <1>2, <1>3, BooksAlone, SameClock

\* Every handler keeps the invariant.
LEMMA BooksStep == BooksInv /\ [ConsoleNext]_consoleVars => BooksInv'
<1> SUFFICES ASSUME BooksInv, [ConsoleNext]_consoleVars PROVE BooksInv'
  OBVIOUS
<1>1. CASE \E lane \in DOMAIN Lanes : EditForm(lane)
  BY <1>1, EditFormStep
<1>2. CASE \E user \in Seats : RaiseQuote(user) \/ BookIt(user) \/ Advance(user)
  BY <1>2, RaiseQuoteStep, BookItStep, AdvanceStep
<1>3. CASE \E user \in Seats, rate \in GoodsRates : NewEntry(user, rate)
  BY <1>3, NewEntryStep
<1>4. CASE \E user \in Seats : ConfirmLine(user) \/ SubmitEntry(user) \/ ReleaseEntry(user)
  BY <1>4, ConfirmLineStep, SubmitEntryStep, ReleaseEntryStep
<1>5. CASE \E user \in Seats : BuildSubmission(user) \/ IssueInvoice(user)
  BY <1>5, BuildSubmissionStep, IssueInvoiceStep
<1>6. CASE \E user \in Seats, n \in DOMAIN invoices, ref \in {"r1", "r2"} : Pay(user, n, ref)
  BY <1>6, PayStep
<1>7. CASE Tick
  BY <1>7, TickStep
<1>8. CASE \E feed \in {"fuel_index", "terminal", "sars_edi"} : ToggleFeed(feed)
  BY <1>8, ToggleFeedStep
<1>9. CASE \E user \in Seats, n \in DOMAIN invoices : RunAudit(user, n)
  BY <1>9, RunAuditStep
<1>10. CASE \E user \in Seats, key \in DOMAIN exceptions, verdict \in {"DISPUTED", "ACCEPTED"} :
              DecideFinding(user, key, verdict)
  BY <1>10, DecideFindingStep
<1>11. CASE UNCHANGED consoleVars
  BY <1>11, NothingMoves
<1> QED BY <1>1, <1>2, <1>3, <1>4, <1>5, <1>6, <1>7, <1>8, <1>9, <1>10, <1>11 DEF ConsoleNext

\* What the invariant is for.
LEMMA BooksHold == BooksInv => ConsoleBooks
<1> SUFFICES ASSUME BooksInv PROVE ConsoleBooks
  OBVIOUS
<1>1. ASSUME NEW kind \in DOMAIN OnOf PROVE Cardinality(AccruedFor(kind)) <= 1
  <2>1. \A i, j \in AccruedFor(kind) : i = j
    BY DEF BooksInv, ChargesSound, AccruedFor
  <2>2. CASE AccruedFor(kind) = {}
    BY <2>2, FS_EmptySet
  <2>3. CASE AccruedFor(kind) # {}
    <3>1. PICK i : i \in AccruedFor(kind)
      BY <2>3
    <3>2. AccruedFor(kind) = {i}
      BY <2>1, <3>1
    <3>3. Cardinality({i}) = 1
      BY FS_Singleton
    <3> QED BY <3>2, <3>3
  <2> QED BY <2>2, <2>3
<1>2. entry.status = "RELEASED" => entry # NoEntry
  BY DEF NoEntry
<1>3. ClearedOnce
  BY <1>1, <1>2 DEF BooksInv, ClearedSound, ClearedOnce
<1> QED BY <1>3 DEF BooksInv, InvoicesSound, FindingsSound, ConsoleBooks

\* The console's books hold whatever seats the work is done from, and in whatever
\* order the handlers of actions.js, the journey and the ticker come: a clearance is
\* charged once, an invoice is what its lines come to, its status is what was paid
\* on it, and a finding is open only if the last audit found it.
THEOREM ConsoleBooksKept == ConsoleSpec => []ConsoleBooks
<1>1. ConsoleInit => BooksInv
  BY BooksInit
<1>2. BooksInv /\ [ConsoleNext]_consoleVars => BooksInv'
  BY BooksStep
<1>3. BooksInv => ConsoleBooks
  BY BooksHold
<1> QED BY <1>1, <1>2, <1>3, PTL DEF ConsoleSpec
=============================================================================
