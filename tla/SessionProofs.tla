---------------------------- MODULE SessionProofs ----------------------------
(***************************************************************************)
(* Session.tla for any addresses, any number of requests at a time and any *)
(* life of a token: the types, that the brake holds, that a logout nothing *)
(* could undo is not undone, and that whoever uses the page stays in.      *)
(***************************************************************************)
EXTENDS Session, FiniteSetTheorems, TLAPS

(* Only an answer that says "ok" sets the cookie, and that of a logout     *)
(* clears it.                                                              *)
AnswersFit ==
    \A s \in Slots : req[s] # Idle =>
        /\ req[s].answer # "ok" => req[s].sets = Keeps
        /\ req[s].kind = "logout" /\ req[s].answer = "ok" => req[s].sets = 0

(* Once logged out, whatever goes through the gate has no token to renew.  *)
GoneFits ==
    gone =>
        /\ jar = 0
        /\ \A s \in Slots : req[s] # Idle /\ req[s].kind \in Gated =>
               req[s].token = 0 /\ req[s].sets = Keeps

IInv == TypeOK /\ AnswersFit /\ GoneFits

(* A request as it is sent.                                                *)
Asked(kind, token) == [Sent(kind) EXCEPT !.token = token]

-----------------------------------------------------------------------------
(* Requests and answers                                                    *)

LEMMA AskedFields ==
  ASSUME NEW kind \in Kinds, NEW token \in 0 .. Ttl, jar \in 0 .. Ttl
  PROVE  /\ Asked(kind, token) \in Request
         /\ Asked(kind, token).kind = kind
         /\ Asked(kind, token).token = token
         /\ Asked(kind, token).answer = "none"
         /\ Asked(kind, token).sets = Keeps
<1> DEFINE sent == Sent(kind)
<1>1. /\ sent \in Request
      /\ sent.kind = kind /\ sent.answer = "none" /\ sent.sets = Keeps
  BY LifeAssumption DEF Sent, Request, Answers, Keeps
<1> HIDE DEF sent
<1>2. /\ [sent EXCEPT !.token = token] \in Request
      /\ [sent EXCEPT !.token = token].kind = sent.kind
      /\ [sent EXCEPT !.token = token].token = token
      /\ [sent EXCEPT !.token = token].answer = sent.answer
      /\ [sent EXCEPT !.token = token].sets = sent.sets
  BY <1>1 DEF Request
<1> QED
  BY <1>1, <1>2 DEF sent, Asked

(* What is sent takes a slot that was free.                                *)
LEMMA SendsOne ==
  ASSUME NEW r, NEW kind, NEW token, SendsIn(r, kind, token)
  PROVE  \E s \in Slots :
             r[s] = Idle /\ req' = [r EXCEPT ![s] = Asked(kind, token)]
<1> DEFINE free == CHOOSE t \in Slots : r[t] = Idle
<1>1. free \in Slots /\ r[free] = Idle
  BY DEF SendsIn
<1>2. req' = [r EXCEPT ![free] = Asked(kind, token)]
  BY DEF SendsIn, Asked
<1> QED
  BY <1>1, <1>2

(* An invariant of the requests survives one more, if what it carries is   *)
(* the jar as it stands.                                                   *)
RequestsFit(r, j) ==
    /\ r \in [Slots -> Request \cup {Idle}]
    /\ \A s \in Slots : r[s] # Idle =>
           /\ r[s].answer # "ok" => r[s].sets = Keeps
           /\ r[s].kind = "logout" /\ r[s].answer = "ok" => r[s].sets = 0
    /\ gone =>
           /\ j = 0
           /\ \A s \in Slots : r[s] # Idle /\ r[s].kind \in Gated =>
                  r[s].token = 0 /\ r[s].sets = Keeps

LEMMA SendsFit ==
  ASSUME NEW r, NEW kind \in Kinds, NEW token \in 0 .. Ttl,
         jar \in 0 .. Ttl, RequestsFit(r, token), SendsIn(r, kind, token),
         gone' = gone
  PROVE  RequestsFit(req', token)
<1>1. PICK s \in Slots :
          r[s] = Idle /\ req' = [r EXCEPT ![s] = Asked(kind, token)]
  BY SendsOne
<1>2. req' \in [Slots -> Request \cup {Idle}]
  BY <1>1, AskedFields DEF RequestsFit
<1>3. req'[s] = Asked(kind, token) /\ \A t \in Slots \ {s} : req'[t] = r[t]
  BY <1>1 DEF RequestsFit
<1> QED
  BY <1>2, <1>3, AskedFields DEF RequestsFit

LEMMA RequestsFitIInv ==
  ASSUME RequestsFit(req, jar)', TypeOK'
  PROVE  IInv'
  BY DEF RequestsFit, IInv, AnswersFit, GoneFits

LEMMA IInvRequestsFit ==
  ASSUME IInv
  PROVE  RequestsFit(req, jar) /\ jar \in 0 .. Ttl
  BY DEF RequestsFit, IInv, AnswersFit, GoneFits, TypeOK

(* An answer changes one request, and fits if what it sets does.           *)
LEMMA AnswerFits ==
  ASSUME NEW s \in Slots, NEW answer \in Answers, NEW sets \in 0 .. Keeps,
         RequestsFit(req, jar), req[s] # Idle, Answer(s, answer, sets),
         jar' = jar, gone' = gone,
         answer # "ok" => sets = Keeps,
         req[s].kind = "logout" /\ answer = "ok" => sets = 0,
         gone /\ req[s].kind \in Gated => sets = Keeps
  PROVE  RequestsFit(req, jar)'
<1> DEFINE told == [req[s] EXCEPT !.token = 0, !.answer = answer, !.sets = sets]
<1>1. req[s] \in Request
  BY DEF RequestsFit
<1>2. /\ told \in Request
      /\ told.kind = req[s].kind /\ told.answer = answer
      /\ told.sets = sets /\ told.token = 0
  <2> DEFINE asked1 == req[s]
  <2>1. asked1 \in Request
    BY <1>1
  <2> HIDE DEF asked1
  <2>2. 0 \in 0 .. Ttl
    BY LifeAssumption
  <2>3. LET r == [asked1 EXCEPT !.token = 0, !.answer = answer, !.sets = sets]
        IN  /\ r \in Request
            /\ r.kind = asked1.kind /\ r.answer = answer
            /\ r.sets = sets /\ r.token = 0
    BY <2>1, <2>2 DEF Request
  <2> QED
    BY <2>3 DEF asked1
<1>3. req' = [req EXCEPT ![s] = told]
  BY <1>1 DEF Answer, Request
<1> HIDE DEF told
<1>4. req'[s] = told /\ \A t \in Slots \ {s} : req'[t] = req[t]
  BY <1>3 DEF RequestsFit
<1>5. req' \in [Slots -> Request \cup {Idle}]
  BY <1>2, <1>3 DEF RequestsFit
<1> QED
  BY <1>2, <1>4, <1>5 DEF RequestsFit

(* A request that has been heard leaves the rest as they were; unless it   *)
(* is what ends or begins a session, the jar is as empty as it was.        *)
LEMMA HeardFits ==
  ASSUME NEW s \in Slots, NEW kinds \in SUBSET Kinds, IInv, Hears(s, kinds)
  PROVE  /\ jar' \in 0 .. Ttl
         /\ Done(s) \in [Slots -> Request \cup {Idle}]
         /\ \A t \in Slots : Done(s)[t] # Idle => t # s /\ Done(s)[t] = req[t]
         /\ kinds \cap {"right", "wrong"} = {} /\ gone => jar' = 0
         /\ req[s].answer # "ok" => jar' = jar
         /\ req[s].kind = "logout" /\ req[s].answer = "ok" => jar' = 0
<1>1. req[s] \in Request /\ jar \in 0 .. Ttl
  BY DEF IInv, TypeOK, Hears
<1>2. req[s].sets \in 0 .. Keeps /\ req[s].kind \in kinds
  BY <1>1 DEF Request, Hears
<1>3. jar' \in 0 .. Ttl
  BY <1>1, <1>2, LifeAssumption DEF Hears, Keeps
<1>4. /\ Done(s) \in [Slots -> Request \cup {Idle}]
      /\ \A t \in Slots : Done(s)[t] # Idle => t # s /\ Done(s)[t] = req[t]
  BY DEF IInv, TypeOK, Done
<1>5. req[s].answer # "ok" => jar' = jar
  BY DEF IInv, AnswersFit, Hears
<1>6. req[s].kind = "logout" /\ req[s].answer = "ok" => jar' = 0
  BY LifeAssumption DEF IInv, AnswersFit, Hears, Keeps
<1>7. kinds \cap {"right", "wrong"} = {} /\ gone => jar' = 0
  <2> SUFFICES ASSUME kinds \cap {"right", "wrong"} = {}, gone
               PROVE  jar' = 0
    OBVIOUS
  <2>1. jar = 0
    BY DEF IInv, GoneFits
  <2>2. CASE req[s].kind \in Gated
    BY <2>1, <2>2 DEF IInv, GoneFits, Hears
  <2>3. CASE req[s].kind = "logout"
    BY <1>5, <1>6, <2>1, <2>3
  <2> QED
    BY <1>2, <2>2, <2>3 DEF Kinds
<1> QED
  BY <1>3, <1>4, <1>5, <1>6, <1>7

(* What a view opens with is one request more at most.                     *)
LEMMA OpensFit ==
  ASSUME NEW v, NEW r, NEW token \in 0 .. Ttl, jar \in 0 .. Ttl,
         RequestsFit(r, token), Opens(v, r, token), gone' = gone
  PROVE  RequestsFit(req', token)
<1>1. CASE v = "login"
  BY <1>1 DEF Opens
<1>2. CASE v # "login"
  <2>1. "call" \in Kinds /\ SendsIn(r, "call", token)
    BY <1>2 DEF Kinds, Gated, Opens
  <2> QED
    BY <2>1, SendsFit
<1> QED
  BY <1>1, <1>2

-----------------------------------------------------------------------------
(* The brake                                                               *)

Failures == [Addresses -> [count : 0 .. MaxFailures, left : 0 .. Window]]

(* A guess never counts past the limit: at it, the address is locked.      *)
LEMMA GuessTypes ==
  ASSUME failures \in Failures, NEW a \in Addresses,
         NEW right \in BOOLEAN, NEW v, Guess(a, right, v)
  PROVE  failures' \in Failures
<1>1. NoEntry \in [count : 0 .. MaxFailures, left : 0 .. Window]
  BY LifeAssumption, BrakeAssumption DEF NoEntry
<1>2. CASE failures' = BlockedAttempt(a)
  BY <1>2 DEF BlockedAttempt
<1>3. CASE failures' = [failures EXCEPT ![a] = NoEntry]
  BY <1>1, <1>3 DEF Failures
<1>4. CASE ~Locked(a) /\ failures' = Recorded(Forgotten(a), a)
  <2> DEFINE f == Forgotten(a)
             g == IF Cardinality(Tracked(f)) >= MaxTracked THEN Purged(f)
                  ELSE f
  <2>1. f \in Failures /\ (Live(f, a) => f[a].count < MaxFailures)
    <3>1. CASE Live(failures, a)
      <4>1. failures[a].count \in 0 .. MaxFailures
        BY DEF Failures
      <4>2. failures[a].count < MaxFailures
        BY <1>4, <3>1, <4>1, BrakeAssumption DEF Locked
      <4> QED
        BY <3>1, <4>2 DEF Forgotten
    <3>2. CASE ~Live(failures, a)
      <4>1. f = [failures EXCEPT ![a] = NoEntry]
        BY <3>2 DEF Forgotten
      <4>2. f \in Failures /\ f[a] = NoEntry
        BY <1>1, <4>1 DEF Failures
      <4> QED
        BY <4>2 DEF Live, NoEntry
    <3> QED
      BY <3>1, <3>2
  <2> HIDE DEF f
  <2>2. g \in Failures /\ (Live(g, a) => g[a].count < MaxFailures)
    <3>1. /\ Purged(f) \in Failures
          /\ Live(Purged(f), a) => Purged(f)[a].count < MaxFailures
      <4>1. Purged(f) \in Failures
        BY <1>1, <2>1 DEF Purged, Failures
      <4>2. Purged(f)[a] \in {f[a], NoEntry}
        BY DEF Purged
      <4>3. CASE Live(f, a)
        BY <2>1, <4>1, <4>3 DEF Purged
      <4>4. CASE ~Live(f, a)
        <5>1. Purged(f)[a] = NoEntry
          BY <4>4 DEF Purged
        <5> QED
          BY <4>1, <5>1 DEF Live, NoEntry
      <4> QED
        BY <4>3, <4>4
    <3> QED
      BY <2>1, <3>1
  <2> HIDE DEF g
  <2>3. CASE Live(g, a)
    <3>1. failures' = [g EXCEPT ![a].count = @ + 1]
      BY <1>4, <2>3 DEF Recorded, f, g
    <3>2. g[a].count + 1 \in 0 .. MaxFailures
      BY <2>2, <2>3, BrakeAssumption DEF Failures
    <3> QED
      BY <2>2, <3>1, <3>2 DEF Failures
  <2>4. CASE ~Live(g, a)
    <3>1. failures' = [g EXCEPT ![a] = [count |-> 1, left |-> Window]]
      BY <1>4, <2>4 DEF Recorded, f, g
    <3> QED
      BY <2>2, <3>1, LifeAssumption, BrakeAssumption DEF Failures
  <2> QED
    BY <2>3, <2>4
<1> QED
  BY <1>2, <1>3, <1>4 DEF Guess

-----------------------------------------------------------------------------
(* The initial states                                                      *)

LEMMA InitIInv == Init => IInv
<1> SUFFICES ASSUME Init PROVE IInv
  OBVIOUS
<1>1. jar \in 0 .. Ttl /\ ~gone
  BY DEF Init
<1>2. "session" \in Kinds
  BY DEF Kinds, Gated
<1>3. /\ Sent("session") \in Request
      /\ Sent("session").kind = "session" /\ Sent("session").sets = Keeps
  BY <1>1, <1>2, LifeAssumption DEF Sent, Request, Answers, Keeps
<1>4. /\ req \in [Slots -> Request \cup {Idle}]
      /\ \A s \in Slots : req[s] # Idle => req[s] = Sent("session")
  <2> HIDE DEF Sent
  <2> QED
    BY <1>3 DEF Init
<1>5. failures \in Failures
  BY LifeAssumption, BrakeAssumption DEF Init, Failures
<1>6. TypeOK
  <2>1. /\ hash \in Views /\ page \in Views \cup {"boot"}
        /\ asked \in BOOLEAN /\ gone \in BOOLEAN
    BY DEF Init
  <2>2. faults \in 0 .. MaxFaults
    BY BrakeAssumption DEF Init
  <2> QED
    BY <1>1, <1>4, <1>5, <2>1, <2>2 DEF TypeOK, Failures
<1>7. AnswersFit
  BY <1>3, <1>4 DEF AnswersFit
<1> QED
  BY <1>1, <1>6, <1>7 DEF IInv, GoneFits

-----------------------------------------------------------------------------
(* The steps of the server                                                 *)

LEMMA OtherGuessKeeps ==
  ASSUME IInv, OtherGuess
  PROVE  IInv'
<1>1. failures' \in Failures
  BY GuessTypes DEF OtherGuess, IInv, TypeOK, Failures
<1> QED
  BY <1>1 DEF OtherGuess, browser, IInv, TypeOK, AnswersFit, GoneFits,
              Failures

LEMMA ServesKeeps ==
  ASSUME IInv, NEW s \in Slots, Serves(s)
  PROVE  IInv'
<1>1. /\ RequestsFit(req, jar) /\ req[s] # Idle /\ req[s] \in Request
      /\ Keeps \in 0 .. Keeps /\ Ttl \in 0 .. Keeps /\ 0 \in 0 .. Keeps
  BY IInvRequestsFit, LifeAssumption
     DEF Serves, Gate, LoginRoute, LogoutRoute, Awaiting, IInv, TypeOK, Keeps
<1>2. jar' = jar /\ gone' = gone
  BY DEF Serves, Gate, LoginRoute, LogoutRoute, view
<1>3. failures' \in Failures
  <2>1. CASE LoginRoute(s)
    <3>1. PICK v \in {"ok", "refused"} : Guess(Home, req[s].kind = "right", v)
      BY <2>1 DEF LoginRoute
    <3> QED
      BY <3>1, GuessTypes, HomeAssumption DEF IInv, TypeOK, Failures
  <2>2. CASE Gate(s) \/ LogoutRoute(s)
    BY <2>2 DEF Gate, LogoutRoute, IInv, TypeOK, Failures
  <2> QED
    BY <2>1, <2>2 DEF Serves
<1>4. RequestsFit(req, jar)'
  <2>1. CASE Gate(s)
    <3>1. PICK answer \in Answers, sets \in 0 .. Keeps :
             /\ Answer(s, answer, sets)
             /\ answer = IF Verified(req[s].token) THEN "ok"
                         ELSE "unauthorized"
             /\ sets = IF req[s].kind # "upgrade" /\ ShouldRenew(req[s].token)
                       THEN Ttl ELSE Keeps
      BY <1>1, <2>1 DEF Gate, Answers
    <3>2. answer # "ok" => sets = Keeps
      BY <3>1 DEF ShouldRenew
    <3>3. req[s].kind # "logout"
      BY <2>1 DEF Gate, Awaiting, Gated
    <3>4. gone => sets = Keeps
      BY <1>1, <2>1, <3>1
         DEF IInv, GoneFits, Gate, Awaiting, ShouldRenew, Verified
    <3> QED
      BY <1>1, <1>2, <3>1, <3>2, <3>3, <3>4, AnswerFits
  <2>2. CASE LoginRoute(s)
    <3>1. PICK answer \in {"ok", "refused"} :
             Answer(s, answer, IF answer = "ok" THEN Ttl ELSE Keeps)
      BY <2>2 DEF LoginRoute
    <3>2. PICK sets \in 0 .. Keeps :
             /\ Answer(s, answer, sets)
             /\ sets = IF answer = "ok" THEN Ttl ELSE Keeps
      BY <1>1, <3>1
    <3>3. req[s].kind # "logout" /\ req[s].kind \notin Gated
      BY <2>2 DEF LoginRoute, Awaiting, Gated
    <3> QED
      BY <1>1, <1>2, <3>2, <3>3, AnswerFits DEF Answers
  <2>3. CASE LogoutRoute(s)
    <3>1. Answer(s, "ok", 0) /\ req[s].kind \notin Gated
      BY <2>3 DEF LogoutRoute, Awaiting, Gated
    <3> QED
      BY <1>1, <1>2, <3>1, AnswerFits DEF Answers
  <2> QED
    BY <2>1, <2>2, <2>3 DEF Serves
<1>5. TypeOK'
  BY <1>2, <1>3, <1>4
     DEF Serves, Gate, LoginRoute, LogoutRoute, view, IInv, TypeOK,
         RequestsFit, Failures
<1> QED
  BY <1>4, <1>5, RequestsFitIInv

LEMMA LosesKeeps ==
  ASSUME IInv, NEW s \in Slots, Loses(s)
  PROVE  IInv'
<1>1. RequestsFit(req, jar) /\ req[s] # Idle /\ Keeps \in 0 .. Keeps
  BY IInvRequestsFit, LifeAssumption DEF Loses, Keeps
<1>2. jar' = jar /\ gone' = gone /\ Answer(s, "refused", Keeps)
  BY DEF Loses, view
<1>3. RequestsFit(req, jar)'
  BY <1>1, <1>2, AnswerFits DEF Answers
<1>4. TypeOK'
  BY <1>3, BrakeAssumption DEF Loses, view, IInv, TypeOK, RequestsFit
<1> QED
  BY <1>3, <1>4, RequestsFitIInv

-----------------------------------------------------------------------------
(* The steps of the browser                                                *)

(* Destroying a view changes who listens and nothing else.                 *)
LEMMA UnmountedFits ==
  ASSUME RequestsFit(req, jar)
  PROVE  RequestsFit(Unmounted, jar)
<1> SUFFICES ASSUME NEW s \in Slots, req[s] # Idle
             PROVE  /\ Unmounted[s] \in Request
                    /\ Unmounted[s].kind = req[s].kind
                    /\ Unmounted[s].token = req[s].token
                    /\ Unmounted[s].answer = req[s].answer
                    /\ Unmounted[s].sets = req[s].sets
  <2>1. \A s \in Slots : req[s] = Idle => Unmounted[s] = Idle
    BY DEF Unmounted
  <2> QED
    BY <2>1 DEF RequestsFit, Unmounted
<1>1. req[s] \in Request
  BY DEF RequestsFit
<1>2. /\ [req[s] EXCEPT !.live = FALSE] \in Request
      /\ [req[s] EXCEPT !.live = FALSE].kind = req[s].kind
      /\ [req[s] EXCEPT !.live = FALSE].token = req[s].token
      /\ [req[s] EXCEPT !.live = FALSE].answer = req[s].answer
      /\ [req[s] EXCEPT !.live = FALSE].sets = req[s].sets
  BY <1>1 DEF Request
<1> QED
  BY <1>1, <1>2 DEF Unmounted

LEMMA AsksKeeps ==
  ASSUME IInv, Poll \/ Submits \/ LogsOut \/ Connects
  PROVE  IInv'
<1>1. RequestsFit(req, jar) /\ jar \in 0 .. Ttl
  BY IInvRequestsFit
<1>2. PICK kind \in Kinds : Sends(kind)
  BY DEF Poll, Submits, LogsOut, Connects, Kinds, Gated
<1>3. UNCHANGED <<failures, jar, view, faults>>
  BY DEF Poll, Submits, LogsOut, Connects
<1>4. RequestsFit(req', jar)
  BY <1>1, <1>2, <1>3, SendsFit DEF Sends, view
<1>5. RequestsFit(req, jar)'
  BY <1>3, <1>4 DEF RequestsFit, view
<1>6. TypeOK'
  BY <1>3, <1>5 DEF IInv, TypeOK, RequestsFit, view
<1> QED
  BY <1>5, <1>6, RequestsFitIInv

LEMMA PageKeeps ==
  ASSUME IInv, HashChange \/ Reloads \/ \E v \in Views : UserGoes(v)
  PROVE  IInv'
<1>1. RequestsFit(req, jar) /\ jar \in 0 .. Ttl
  BY IInvRequestsFit
<1>2. UNCHANGED <<failures, jar, gone, faults>>
  BY DEF HashChange, Reloads, UserGoes
<1>3. RequestsFit(req', jar)
  <2>1. CASE HashChange
    BY <1>1, <1>2, <2>1, UnmountedFits, OpensFit DEF HashChange
  <2>2. CASE Reloads
    <3>1. RequestsFit([t \in Slots |-> Idle], jar)
      BY <1>1 DEF RequestsFit
    <3>2. "session" \in Kinds
      BY DEF Kinds, Gated
    <3> QED
      BY <1>1, <1>2, <2>2, <3>1, <3>2, SendsFit DEF Reloads
  <2>3. CASE \E v \in Views : UserGoes(v)
    BY <1>1, <2>3 DEF UserGoes
  <2> QED
    BY <2>1, <2>2, <2>3
<1>4. RequestsFit(req, jar)'
  BY <1>2, <1>3 DEF RequestsFit
<1>5. /\ hash' \in Views /\ page' \in Views \cup {"boot"}
      /\ asked' \in BOOLEAN
  BY DEF HashChange, Reloads, UserGoes, IInv, TypeOK
<1>6. TypeOK'
  BY <1>2, <1>4, <1>5 DEF IInv, TypeOK, RequestsFit
<1> QED
  BY <1>4, <1>6, RequestsFitIInv

(* Time passes with nothing under way.                                     *)
LEMMA TickKeeps ==
  ASSUME IInv, Tick
  PROVE  IInv'
<1>1. jar' \in 0 .. Ttl /\ (jar = 0 => jar' = 0)
  <2>1. jar \in 0 .. Ttl
    BY DEF IInv, TypeOK
  <2>2. jar' = IF jar = 0 THEN 0 ELSE jar - 1
    BY DEF Tick
  <2> QED
    BY <2>1, <2>2, LifeAssumption
<1>2. failures' \in Failures
  <2> SUFFICES ASSUME NEW a \in Addresses
               PROVE  failures'[a] \in [count : 0 .. MaxFailures,
                                        left : 0 .. Window]
    BY DEF Tick, Failures
  <2>1. failures[a] \in [count : 0 .. MaxFailures, left : 0 .. Window]
    BY DEF IInv, TypeOK
  <2>2. (IF failures[a].left = 0 THEN 0 ELSE failures[a].left - 1)
            \in 0 .. Window
    BY <2>1, LifeAssumption
  <2>3. failures'[a] = [failures[a] EXCEPT !.left =
                          IF failures[a].left = 0 THEN 0
                          ELSE failures[a].left - 1]
    BY DEF Tick
  <2> QED
    BY <2>1, <2>2, <2>3
<1>3. UNCHANGED <<hash, page, req, gone, faults>> /\ asked' \in BOOLEAN
  BY DEF Tick
<1> QED
  BY <1>1, <1>2, <1>3 DEF IInv, TypeOK, AnswersFit, GoneFits, Failures

-----------------------------------------------------------------------------
(* The browser hears an answer                                             *)

(* What is left under way when one request has been heard.                 *)
LEMMA DoneFits ==
  ASSUME NEW s \in Slots, NEW kinds \in SUBSET Kinds, IInv, Hears(s, kinds),
         kinds \cap {"right", "wrong"} = {}
  PROVE  RequestsFit(Done(s), jar') /\ jar' \in 0 .. Ttl
<1>1. RequestsFit(req, jar)
  BY IInvRequestsFit
<1> QED
  BY <1>1, HeardFits DEF RequestsFit

LEMMA HearsGatedKeeps ==
  ASSUME IInv, NEW s \in Slots,
         HearsUpgrade(s) \/ HearsCall(s) \/ HearsSession(s)
  PROVE  IInv'
<1>1. PICK kinds \in SUBSET Kinds :
         Hears(s, kinds) /\ kinds \cap {"right", "wrong"} = {}
  <2>1. /\ {"upgrade"} \in SUBSET Kinds /\ {"call"} \in SUBSET Kinds
        /\ {"session"} \in SUBSET Kinds
    BY DEF Kinds, Gated
  <2> QED
    BY <2>1 DEF HearsUpgrade, HearsCall, HearsSession
<1>2. RequestsFit(Done(s), jar') /\ jar' \in 0 .. Ttl
  BY <1>1, DoneFits
<1>3. gone' = gone /\ failures' = failures /\ faults' = faults
  BY <1>1 DEF HearsUpgrade, HearsCall, HearsSession, Hears, view
<1>4. RequestsFit(req', jar')
  <2>1. CASE req' = Done(s)
    BY <1>2, <2>1
  <2>2. CASE HearsSession(s) /\ req' # Done(s)
    <3>1. RequestsFit(req', jar') \/ Opens(hash', Done(s), jar')
      BY <2>2 DEF HearsSession
    <3>2. jar \in 0 .. Ttl
      BY DEF IInv, TypeOK
    <3> QED
      BY <1>2, <1>3, <3>1, <3>2, OpensFit
  <2> QED
    BY <2>1, <2>2 DEF HearsUpgrade, HearsCall
<1>5. RequestsFit(req, jar)'
  BY <1>3, <1>4 DEF RequestsFit
<1>6. hash' \in Views /\ page' \in Views \cup {"boot"} /\ asked' \in BOOLEAN
  BY DEF HearsUpgrade, HearsCall, HearsSession, OnUnauthorized, view, Views,
         IInv, TypeOK
<1>7. TypeOK'
  BY <1>2, <1>3, <1>5, <1>6 DEF IInv, TypeOK, RequestsFit
<1> QED
  BY <1>5, <1>7, RequestsFitIInv

(* Only a login that succeeds fills the jar again, and it ends `gone`.     *)
LEMMA HearsLoginKeeps ==
  ASSUME IInv, NEW s \in Slots, HearsLogin(s)
  PROVE  IInv'
<1>1. /\ Hears(s, {"right", "wrong"}) /\ {"right", "wrong"} \in SUBSET Kinds
      /\ req' = Done(s)
  BY DEF HearsLogin, Kinds
<1>2. /\ jar' \in 0 .. Ttl
      /\ req' \in [Slots -> Request \cup {Idle}]
      /\ \A t \in Slots : req'[t] # Idle => req[t] # Idle /\ req'[t] = req[t]
      /\ req[s].answer # "ok" => jar' = jar
  BY <1>1, HeardFits
<1>3. gone' => gone /\ jar' = jar
  BY <1>2 DEF HearsLogin
<1>4. RequestsFit(req, jar)'
  BY <1>2, <1>3 DEF RequestsFit, IInv, AnswersFit, GoneFits
<1>5. /\ hash' \in Views /\ page' = page /\ asked' = asked
      /\ gone' \in BOOLEAN /\ failures' = failures /\ faults' = faults
  BY DEF HearsLogin, Hears, Views, IInv, TypeOK
<1>6. TypeOK'
  BY <1>2, <1>5 DEF IInv, TypeOK
<1> QED
  BY <1>4, <1>6, RequestsFitIInv

(* A logout begins `gone` only if it found nothing that could undo it.     *)
LEMMA HearsLogoutKeeps ==
  ASSUME IInv, NEW s \in Slots, HearsLogout(s)
  PROVE  IInv'
<1>1. /\ Hears(s, {"logout"}) /\ {"logout"} \in SUBSET Kinds
      /\ req' = Done(s) /\ req[s].kind = "logout"
  BY DEF HearsLogout, Hears, Kinds
<1>2. /\ jar' \in 0 .. Ttl
      /\ req' \in [Slots -> Request \cup {Idle}]
      /\ \A t \in Slots : req'[t] # Idle => req[t] # Idle /\ req'[t] = req[t]
      /\ gone => jar' = 0
      /\ req[s].answer = "ok" => jar' = 0
  BY <1>1, HeardFits
<1>3. gone' => gone \/ (req[s].answer = "ok" /\ Undoing = {})
  BY DEF HearsLogout
<1>4. Undoing = {} => \A t \in Slots : req[t] # Idle => req[t].kind \notin Gated
  BY DEF Undoing, Gated
<1>5. RequestsFit(req, jar)'
  BY <1>2, <1>3, <1>4 DEF RequestsFit, IInv, AnswersFit, GoneFits
<1>6. /\ hash' \in Views /\ page' = page /\ asked' = asked
      /\ gone' \in BOOLEAN /\ failures' = failures /\ faults' = faults
  BY DEF HearsLogout, Hears, Views, IInv, TypeOK
<1>7. TypeOK'
  BY <1>2, <1>6 DEF IInv, TypeOK
<1> QED
  BY <1>5, <1>7, RequestsFitIInv

-----------------------------------------------------------------------------

LEMMA StepKeepsIInv == IInv /\ [Next]_vars => IInv'
<1> SUFFICES ASSUME IInv, [Next]_vars PROVE IInv'
  OBVIOUS
<1>1. CASE OtherGuess
  BY <1>1, OtherGuessKeeps
<1>2. CASE HashChange
  BY <1>2, PageKeeps
<1>3. CASE Tick
  BY <1>3, TickKeeps
<1>4. CASE Poll
  BY <1>4, AsksKeeps
<1>5. CASE User
  BY <1>5, AsksKeeps, PageKeeps DEF User
<1>6. ASSUME NEW s \in Slots, Serves(s) PROVE IInv'
  BY <1>6, ServesKeeps
<1>7. ASSUME NEW s \in Slots, Loses(s) PROVE IInv'
  BY <1>7, LosesKeeps
<1>8. ASSUME NEW s \in Slots, HearsAny(s) PROVE IInv'
  BY <1>8, HearsGatedKeeps, HearsLoginKeeps, HearsLogoutKeeps DEF HearsAny
<1>9. CASE UNCHANGED vars
  BY <1>9 DEF vars, IInv, TypeOK, AnswersFit, GoneFits
<1> QED
  BY <1>1, <1>2, <1>3, <1>4, <1>5, <1>6, <1>7, <1>8, <1>9 DEF Next

LEMMA SpecIInv == Spec => []IInv
<1> QED
  BY InitIInv, StepKeepsIInv, PTL DEF Spec

(* Every variable has its type: above all, no address is ever counted past *)
(* the limit at which the brake holds it (routes.ts).                      *)
THEOREM SpecTypeOK == Spec => []TypeOK
<1>1. IInv => TypeOK
  BY DEF IInv
<1> QED
  BY <1>1, SpecIInv, PTL

(* Once a logout has been answered with nothing else under way, no answer  *)
(* to any number of requests fills the jar again: what the gate verifies   *)
(* is what it renews, and there is nothing left to verify (gate.ts).       *)
THEOREM SpecLogoutSticks == Spec => []LogoutSticks
<1>1. IInv => LogoutSticks
  BY DEF IInv, GoneFits, LogoutSticks
<1> QED
  BY <1>1, SpecIInv, PTL

-----------------------------------------------------------------------------
(* The brake holds                                                         *)

(* What a guess may do to the table of failures.                           *)
BrakeStep ==
    /\ \A a \in Addresses : Locked(a) =>
           failures'[a] \in {failures[a], [failures[a] EXCEPT !.left = @ - 1]}
    /\ ~ Tracked(failures') \subseteq Tracked(failures) =>
           \/ Cardinality(Tracked(failures')) <= MaxTracked
           \/ \A a \in Tracked(failures') : Live(failures', a)

(* A failure that is recorded spares every other entry that is live, and   *)
(* what was not there before found room or a table that was just purged.   *)
LEMMA RecordedBrake ==
  ASSUME failures \in Failures, NEW a \in Addresses, ~Locked(a),
         failures' = Recorded(Forgotten(a), a)
  PROVE  BrakeStep
<1> DEFINE f == Forgotten(a)
           full == Cardinality(Tracked(f)) >= MaxTracked
           g == IF full THEN Purged(f) ELSE f
<1>1. /\ f \in Failures
      /\ \A b \in Addresses \ {a} : f[b] = failures[b]
      /\ Tracked(f) \subseteq Tracked(failures)
  <2>1. NoEntry \in [count : 0 .. MaxFailures, left : 0 .. Window]
    BY LifeAssumption, BrakeAssumption DEF NoEntry
  <2>2. f \in Failures /\ \A b \in Addresses \ {a} : f[b] = failures[b]
    BY <2>1 DEF Forgotten, Failures
  <2>3. f[a] \in {failures[a], NoEntry}
    BY DEF Forgotten, Failures
  <2> QED
    BY <2>2, <2>3 DEF Tracked, NoEntry
<1>2. failures' = IF Live(g, a) THEN [g EXCEPT ![a].count = @ + 1]
                  ELSE [g EXCEPT ![a] = [count |-> 1, left |-> Window]]
  BY DEF Recorded
<1> HIDE DEF f
<1>3. /\ g \in [Addresses -> [count : Nat, left : Nat]]
      /\ \A b \in Addresses : g[b] \in {f[b], NoEntry}
      /\ \A b \in Addresses : Live(f, b) => g[b] = f[b]
      /\ full => \A b \in Addresses : g[b].count > 0 => Live(g, b)
  <2>1. NoEntry \in [count : Nat, left : Nat] /\ NoEntry.count = 0
    BY DEF NoEntry
  <2>2. f \in [Addresses -> [count : Nat, left : Nat]]
    BY <1>1, LifeAssumption, BrakeAssumption DEF Failures
  <2>3. \A b \in Addresses :
            Purged(f)[b] = IF Live(f, b) THEN f[b] ELSE NoEntry
    BY DEF Purged
  <2>4. Purged(f) \in [Addresses -> [count : Nat, left : Nat]]
    BY <2>1, <2>2 DEF Purged
  <2>5. CASE full
    <3>1. \A b \in Addresses : Purged(f)[b].count > 0 => Live(Purged(f), b)
      BY <2>1, <2>3 DEF Live
    <3> QED
      BY <2>3, <2>4, <2>5, <3>1
  <2>6. CASE ~full
    BY <2>2, <2>6
  <2> QED
    BY <2>5, <2>6
<1> HIDE DEF g
<1>4. /\ \A b \in Addresses \ {a} : failures'[b] = g[b]
      /\ Live(g, a) => /\ failures'[a].count > 0
                       /\ failures'[a].left = g[a].left
      /\ ~Live(g, a) => failures'[a] = [count |-> 1, left |-> Window]
  BY <1>2, <1>3 DEF Live
<1>5. ASSUME NEW b \in Addresses, Locked(b)
      PROVE  failures'[b] = failures[b]
  <2>1. b # a /\ Live(failures, b)
    BY <1>5 DEF Locked
  <2>2. Live(f, b) /\ f[b] = failures[b]
    BY <1>1, <2>1 DEF Live
  <2> QED
    BY <1>3, <1>4, <2>1, <2>2
<1>6. Tracked(failures') \subseteq Tracked(f) \cup {a}
  BY <1>3, <1>4 DEF Tracked, NoEntry
<1>7. CASE full
  <2>1. \A b \in Tracked(failures') : Live(failures', b)
    BY <1>3, <1>4, <1>7, LifeAssumption DEF Tracked, Live
  <2> QED
    BY <1>5, <2>1 DEF BrakeStep
<1>8. CASE ~full
  <2>1. IsFiniteSet(Tracked(f)) /\ IsFiniteSet(Tracked(f) \cup {a})
    BY HomeAssumption, FS_Subset, FS_AddElement DEF Tracked
  <2>2. /\ Cardinality(Tracked(f)) \in Nat
        /\ Cardinality(Tracked(f) \cup {a}) <= Cardinality(Tracked(f)) + 1
    BY <2>1, FS_AddElement, FS_CardinalityType
  <2>3. /\ Cardinality(Tracked(failures')) \in Nat
        /\ Cardinality(Tracked(failures')) <= Cardinality(Tracked(f) \cup {a})
        /\ Cardinality(Tracked(f) \cup {a}) \in Nat
    BY <1>6, <2>1, FS_Subset, FS_CardinalityType
  <2>4. Cardinality(Tracked(failures')) <= MaxTracked
    BY <1>8, <2>2, <2>3, BrakeAssumption
  <2> QED
    BY <1>5, <2>4 DEF BrakeStep
<1> QED
  BY <1>7, <1>8

LEMMA GuessBrake ==
  ASSUME failures \in Failures, NEW a \in Addresses,
         NEW right \in BOOLEAN, NEW v, Guess(a, right, v)
  PROVE  BrakeStep
<1>1. CASE failures' = BlockedAttempt(a)
  BY <1>1 DEF BlockedAttempt, BrakeStep
<1>2. CASE ~Locked(a) /\ failures' = [failures EXCEPT ![a] = NoEntry]
  <2>1. \A b \in Addresses \ {a} : failures'[b] = failures[b]
    BY <1>2 DEF Failures
  <2>2. failures'[a] = NoEntry
    BY <1>2 DEF Failures
  <2>3. Tracked(failures') \subseteq Tracked(failures)
    BY <2>1, <2>2 DEF Tracked, NoEntry
  <2> QED
    BY <1>2, <2>1, <2>3 DEF BrakeStep
<1>3. CASE ~Locked(a) /\ failures' = Recorded(Forgotten(a), a)
  BY <1>3, RecordedBrake
<1> QED
  BY <1>1, <1>2, <1>3 DEF Guess

LEMMA StepBrakes == IInv /\ [Next]_vars => BrakeStep
<1> SUFFICES ASSUME IInv, [Next]_vars PROVE BrakeStep
  OBVIOUS
<1>1. failures \in Failures
  BY DEF IInv, TypeOK, Failures
<1>2. CASE failures' = failures
  BY <1>2 DEF BrakeStep
<1>3. CASE OtherGuess
  BY <1>1, <1>3, GuessBrake DEF OtherGuess
<1>4. ASSUME NEW s \in Slots, LoginRoute(s) PROVE BrakeStep
  <2>1. PICK v \in {"ok", "refused"} : Guess(Home, req[s].kind = "right", v)
    BY <1>4 DEF LoginRoute
  <2> QED
    BY <1>1, <2>1, GuessBrake, HomeAssumption
<1>5. CASE Tick
  <2>1. \A a \in Addresses :
            failures'[a] = [failures[a] EXCEPT !.left =
                              IF failures[a].left = 0 THEN 0
                              ELSE failures[a].left - 1]
    BY <1>5 DEF Tick
  <2>2. \A a \in Addresses : failures'[a].count = failures[a].count
    <3> SUFFICES ASSUME NEW a \in Addresses
                 PROVE  failures'[a].count = failures[a].count
      OBVIOUS
    <3>1. failures[a] \in [count : 0 .. MaxFailures, left : 0 .. Window]
      BY <1>1 DEF Failures
    <3> QED
      BY <2>1, <3>1
  <2>3. Tracked(failures') \subseteq Tracked(failures)
    BY <2>2 DEF Tracked
  <2>4. \A a \in Addresses : Locked(a) =>
            failures'[a] = [failures[a] EXCEPT !.left = failures[a].left - 1]
    BY <1>1, <2>1 DEF Locked, Live, Failures
  <2> QED
    BY <2>3, <2>4 DEF BrakeStep
<1>6. CASE HashChange \/ Poll \/ User
  BY <1>2, <1>6
     DEF HashChange, Poll, User, Submits, LogsOut, Connects, Reloads, UserGoes
<1>7. ASSUME NEW s \in Slots,
             Gate(s) \/ LogoutRoute(s) \/ Loses(s) \/ HearsAny(s)
      PROVE  BrakeStep
  BY <1>2, <1>7 DEF Gate, LogoutRoute, Loses, HearsAny, HearsUpgrade,
     HearsCall, HearsSession, HearsLogin, HearsLogout, Hears
<1>8. CASE UNCHANGED vars
  BY <1>2, <1>8 DEF vars
<1> QED
  BY <1>3, <1>4, <1>5, <1>6, <1>7, <1>8 DEF Next, Serves

(* No guess, from whatever address and however full the table, shortens or *)
(* lengthens the lock of an address that has used up its guesses, and      *)
(* beyond its limit the table holds open windows only (routes.ts).         *)
THEOREM SpecBrakeHolds == Spec => BrakeHolds
<1>1. IInv /\ [Next]_vars => BrakeStep
  BY StepBrakes
<1> QED
  BY <1>1, SpecIInv, PTL DEF Spec, BrakeHolds, BrakeStep

-----------------------------------------------------------------------------
(* The passing of time logs nobody out who has the list open               *)

(* A token that will not be renewed yet, or none.                          *)
Lasts(token) == token = 0 \/ 2 * token >= Ttl

(* What is under way knows that the jar lasts: a request because it carries *)
(* what the jar held, an answer because the gate has let a token be.       *)
KnowsIt(r, token) ==
    /\ r.sets \in {0, Ttl, Keeps}
    /\ r.sets = 0 => r.kind = "logout"
    /\ r.kind \in Gated /\ r.answer = "none" /\ 2 * r.token >= Ttl =>
           Lasts(token)
    /\ r.kind = "call" /\ r.answer = "ok" /\ r.sets = Keeps => Lasts(token)

JarLasts ==
    /\ \A s \in Slots : req[s] # Idle => KnowsIt(req[s], jar)
    /\ asked => Lasts(jar)

SameRequest(r, q) ==
    r.kind = q.kind /\ r.token = q.token /\ r.answer = q.answer
    /\ r.sets = q.sets

LEMMA SentKnowsIt ==
  ASSUME NEW kind \in Kinds, NEW token \in 0 .. Ttl, jar \in 0 .. Ttl
  PROVE  KnowsIt(Asked(kind, token), token)
<1>1. Keeps # 0
  BY LifeAssumption DEF Keeps
<1> QED
  BY <1>1, AskedFields DEF KnowsIt, Lasts

LEMMA JarLastsStep ==
  ASSUME JarLasts, Lasts(jar) => Lasts(jar'), asked' => Lasts(jar'),
         \A s \in Slots : req'[s] # Idle =>
             \/ req[s] # Idle /\ SameRequest(req'[s], req[s])
             \/ KnowsIt(req'[s], jar')
  PROVE  JarLasts'
<1> SUFFICES ASSUME NEW s \in Slots, req'[s] # Idle
             PROVE  KnowsIt(req'[s], jar')
  BY DEF JarLasts, KnowsIt, Lasts, Keeps
<1>1. CASE req[s] # Idle /\ SameRequest(req'[s], req[s])
  BY <1>1 DEF JarLasts, KnowsIt, SameRequest
<1> QED
  BY <1>1

(* One request more, of the jar as it is.                                  *)
LEMMA SendsKnowIt ==
  ASSUME IInv, NEW r \in [Slots -> Request \cup {Idle}],
         NEW token \in 0 .. Ttl, NEW kind \in Kinds,
         SendsIn(r, kind, token),
         \A s \in Slots : r[s] # Idle =>
             req[s] # Idle /\ SameRequest(r[s], req[s])
  PROVE  \A s \in Slots : req'[s] # Idle =>
             \/ req[s] # Idle /\ SameRequest(req'[s], req[s])
             \/ KnowsIt(req'[s], token)
<1>1. PICK s \in Slots :
          r[s] = Idle /\ req' = [r EXCEPT ![s] = Asked(kind, token)]
  BY SendsOne
<1>2. jar \in 0 .. Ttl
  BY DEF IInv, TypeOK
<1>3. req'[s] = Asked(kind, token) /\ \A t \in Slots \ {s} : req'[t] = r[t]
  BY <1>1
<1>4. KnowsIt(req'[s], token)
  BY <1>2, <1>3, SentKnowsIt
<1> QED
  BY <1>3, <1>4

LEMMA InitJarLasts == Init => JarLasts
<1> SUFFICES ASSUME Init PROVE JarLasts
  OBVIOUS
<1> DEFINE first == CHOOSE t \in Slots : TRUE
<1>1. jar \in 0 .. Ttl /\ ~asked
  BY DEF Init
<1>2. /\ Sent("session").kind = "session" /\ Sent("session").token = jar
      /\ Sent("session").answer = "none" /\ Sent("session").sets = Keeps
  BY DEF Sent
<1>3. \A s \in Slots : req[s] # Idle => req[s] = Sent("session")
  <2> HIDE DEF Sent
  <2> QED
    BY DEF Init
<1>4. Keeps # 0
  BY LifeAssumption DEF Keeps
<1> QED
  BY <1>1, <1>2, <1>3, <1>4 DEF JarLasts, KnowsIt, Lasts

LEMMA ServerJarLasts ==
  ASSUME IInv, JarLasts, NEW s \in Slots, Serves(s) \/ Loses(s)
  PROVE  JarLasts'
<1>1. jar' = jar /\ asked' = asked
  BY DEF Serves, Gate, LoginRoute, LogoutRoute, Loses, view
<1>2. req[s] \in Request /\ req \in [Slots -> Request \cup {Idle}]
  BY DEF Serves, Gate, LoginRoute, LogoutRoute, Loses, Awaiting, IInv, TypeOK
<1>3. Keeps # 0 /\ Keeps # Ttl /\ Ttl # 0
  BY LifeAssumption DEF Keeps
<1>4. ASSUME NEW answer \in Answers, NEW sets \in {0, Ttl, Keeps},
             Answer(s, answer, sets), answer # "none",
             sets = 0 => req[s].kind = "logout",
             req[s].kind = "call" /\ answer = "ok" /\ sets = Keeps =>
                 Lasts(jar)
      PROVE  JarLasts'
  <2> DEFINE r0 == req[s]
             q == [r0 EXCEPT !.token = 0, !.answer = answer, !.sets = sets]
  <2>1. r0 \in Request /\ req' = [req EXCEPT ![s] = q]
    BY <1>2, <1>4 DEF Answer
  <2> HIDE DEF r0
  <2>2. q.kind = r0.kind /\ q.answer = answer /\ q.sets = sets
    BY <2>1 DEF Request
  <2> HIDE DEF q
  <2>3. req'[s] = q /\ \A t \in Slots \ {s} : req'[t] = req[t]
    BY <1>2, <2>1
  <2>4. KnowsIt(req'[s], jar')
    BY <1>1, <1>4, <2>2, <2>3 DEF KnowsIt, r0
  <2> QED
    BY <1>1, <2>3, <2>4, JarLastsStep DEF JarLasts, SameRequest
<1>5. CASE Gate(s)
  <2>1. PICK answer \in {"ok", "unauthorized"}, sets \in {Ttl, Keeps} :
          /\ Answer(s, answer, sets)
          /\ answer = IF Verified(req[s].token) THEN "ok" ELSE "unauthorized"
          /\ sets = IF req[s].kind # "upgrade" /\ ShouldRenew(req[s].token)
                    THEN Ttl ELSE Keeps
    BY <1>5 DEF Gate
  <2>2. ASSUME req[s].kind = "call", answer = "ok", sets = Keeps
        PROVE  Lasts(jar)
    <3>1. req[s].token \in 0 .. Ttl /\ ~(2 * req[s].token < Ttl)
      BY <1>2, <1>3, <2>1, <2>2 DEF Request, ShouldRenew
    <3>2. 2 * req[s].token >= Ttl
      BY <3>1, LifeAssumption
    <3> QED
      BY <1>5, <3>2 DEF JarLasts, KnowsIt, Gate, Awaiting
  <2> QED
    BY <1>3, <1>4, <2>1, <2>2 DEF Answers
<1>6. CASE LoginRoute(s)
  <2>1. PICK answer \in {"ok", "refused"} :
           Answer(s, answer, IF answer = "ok" THEN Ttl ELSE Keeps)
    BY <1>6 DEF LoginRoute
  <2>2. PICK sets \in {Ttl, Keeps} : Answer(s, answer, sets)
    BY <2>1
  <2>3. req[s].kind # "call"
    BY <1>6 DEF LoginRoute, Awaiting
  <2> QED
    BY <1>3, <1>4, <2>2, <2>3 DEF Answers
<1>7. CASE LogoutRoute(s)
  BY <1>3, <1>4, <1>7 DEF LogoutRoute, Awaiting, Answers
<1>8. CASE Loses(s)
  BY <1>3, <1>4, <1>8 DEF Loses, Answers
<1> QED
  BY <1>5, <1>6, <1>7, <1>8 DEF Serves

LEMMA OpensKnowIt ==
  ASSUME IInv, NEW v, NEW r \in [Slots -> Request \cup {Idle}],
         NEW token \in 0 .. Ttl, Opens(v, r, token),
         \A s \in Slots : r[s] # Idle =>
             req[s] # Idle /\ SameRequest(r[s], req[s])
  PROVE  \A s \in Slots : req'[s] # Idle =>
             \/ req[s] # Idle /\ SameRequest(req'[s], req[s])
             \/ KnowsIt(req'[s], token)
<1>1. CASE v = "login"
  BY <1>1 DEF Opens
<1>2. CASE v # "login"
  <2>1. "call" \in Kinds /\ SendsIn(r, "call", token)
    BY <1>2 DEF Kinds, Gated, Opens
  <2> QED
    BY <2>1, SendsKnowIt
<1> QED
  BY <1>1, <1>2

LEMMA UserJarLasts ==
  ASSUME IInv, JarLasts,
         HashChange \/ Poll \/ User
  PROVE  JarLasts'
<1>1. jar' = jar /\ jar \in 0 .. Ttl /\ (asked' => asked)
  BY DEF HashChange, Poll, User, Submits, LogsOut, Connects, Reloads,
         UserGoes, view, IInv, TypeOK
<1>2. req \in [Slots -> Request \cup {Idle}]
  BY DEF IInv, TypeOK
<1>3. ASSUME NEW kind \in Kinds, Sends(kind) PROVE JarLasts'
  <2>1. \A s \in Slots : req'[s] # Idle =>
             \/ req[s] # Idle /\ SameRequest(req'[s], req[s])
             \/ KnowsIt(req'[s], jar')
    BY <1>1, <1>2, <1>3, SendsKnowIt DEF Sends, SameRequest
  <2> QED
    BY <1>1, <2>1, JarLastsStep DEF JarLasts
<1>4. CASE Poll \/ Submits \/ LogsOut \/ Connects
  <2>1. \E kind \in Kinds : Sends(kind)
    BY <1>4 DEF Poll, Submits, LogsOut, Connects, Kinds, Gated
  <2> QED
    BY <1>3, <2>1
<1>5. CASE HashChange
  <2>1. RequestsFit(Unmounted, jar)
    BY IInvRequestsFit, UnmountedFits
  <2>2. \A s \in Slots : Unmounted[s] # Idle =>
            req[s] # Idle /\ SameRequest(Unmounted[s], req[s])
    <3> SUFFICES ASSUME NEW s \in Slots, req[s] # Idle
                 PROVE  SameRequest(Unmounted[s], req[s])
      BY DEF Unmounted
    <3>1. req[s] \in Request
      BY <1>2
    <3>2. SameRequest([req[s] EXCEPT !.live = FALSE], req[s])
      BY <3>1 DEF Request, SameRequest
    <3> QED
      BY <3>1, <3>2 DEF Unmounted, SameRequest
  <2>3. Opens(hash, Unmounted, jar)
    BY <1>5 DEF HashChange
  <2>4. Unmounted \in [Slots -> Request \cup {Idle}]
    BY <2>1 DEF RequestsFit
  <2> HIDE DEF Unmounted
  <2>5. \A s \in Slots : req'[s] # Idle =>
             \/ req[s] # Idle /\ SameRequest(req'[s], req[s])
             \/ KnowsIt(req'[s], jar')
    BY <1>1, <2>2, <2>3, <2>4, OpensKnowIt
  <2> QED
    BY <1>1, <2>5, JarLastsStep DEF JarLasts
<1>6. CASE Reloads
  <2> DEFINE none == [t \in Slots |-> Idle]
  <2>1. /\ none \in [Slots -> Request \cup {Idle}]
        /\ \A s \in Slots : none[s] = Idle
        /\ "session" \in Kinds /\ SendsIn(none, "session", jar)
    BY <1>6 DEF Reloads, Kinds, Gated
  <2> HIDE DEF none
  <2>2. \A s \in Slots : req'[s] # Idle =>
             \/ req[s] # Idle /\ SameRequest(req'[s], req[s])
             \/ KnowsIt(req'[s], jar')
    BY <1>1, <2>1, SendsKnowIt
  <2> QED
    BY <1>1, <2>2, JarLastsStep DEF JarLasts
<1>7. CASE \E v \in Views : UserGoes(v)
  BY <1>7 DEF UserGoes, JarLasts, KnowsIt, Lasts, Keeps
<1> QED
  BY <1>4, <1>5, <1>6, <1>7 DEF User

(* The jar is what it was, or a token just made, or was emptied by a       *)
(* logout.                                                                 *)
LEMMA HeardLasts ==
  ASSUME IInv, JarLasts, NEW s \in Slots, NEW kinds \in SUBSET Kinds,
         Hears(s, kinds)
  PROVE  /\ jar' \in 0 .. Ttl /\ (Lasts(jar) => Lasts(jar'))
         /\ req[s].sets # Keeps => Lasts(jar')
         /\ req[s].sets # 0 /\ jar > 0 => jar' > 0
<1>1. jar' \in 0 .. Ttl
  BY HeardFits
<1>2. req[s].sets \in {0, Ttl, Keeps}
  BY DEF JarLasts, KnowsIt, Hears
<1>3. jar' = IF req[s].sets = Keeps THEN jar ELSE req[s].sets
  BY DEF Hears
<1>4. Ttl > 0 /\ Lasts(Ttl) /\ Lasts(0) /\ Keeps # 0
  BY LifeAssumption DEF Lasts, Keeps
<1> QED
  BY <1>1, <1>2, <1>3, <1>4

LEMMA HearsJarLasts ==
  ASSUME IInv, JarLasts, NEW s \in Slots, HearsAny(s)
  PROVE  JarLasts'
<1>1. PICK kinds \in SUBSET Kinds : Hears(s, kinds)
  <2>1. /\ {"upgrade"} \in SUBSET Kinds /\ {"call"} \in SUBSET Kinds
        /\ {"session"} \in SUBSET Kinds /\ {"logout"} \in SUBSET Kinds
        /\ {"right", "wrong"} \in SUBSET Kinds
    BY DEF Kinds, Gated
  <2> QED
    BY <2>1 DEF HearsAny, HearsUpgrade, HearsCall, HearsSession, HearsLogin,
                HearsLogout
<1>2. /\ jar' \in 0 .. Ttl /\ (Lasts(jar) => Lasts(jar'))
      /\ req[s].sets # Keeps => Lasts(jar')
  BY <1>1, HeardLasts
<1>3. /\ Done(s) \in [Slots -> Request \cup {Idle}]
      /\ \A t \in Slots : Done(s)[t] # Idle =>
             req[t] # Idle /\ SameRequest(Done(s)[t], req[t])
  BY <1>1, HeardFits DEF SameRequest
<1>4. asked' => Lasts(jar')
  <2>1. CASE HearsCall(s) /\ req[s].answer = "ok"
    BY <1>2, <2>1 DEF HearsCall, Hears, JarLasts, KnowsIt
  <2>2. CASE asked' => asked
    BY <1>2, <2>2 DEF JarLasts
  <2> QED
    BY <2>1, <2>2 DEF HearsAny, HearsUpgrade, HearsCall, HearsSession,
       HearsLogin, HearsLogout, view
<1>5. \A t \in Slots : req'[t] # Idle =>
          \/ req[t] # Idle /\ SameRequest(req'[t], req[t])
          \/ KnowsIt(req'[t], jar')
  <2>1. CASE req' = Done(s)
    BY <1>3, <2>1
  <2>2. CASE Opens(hash', Done(s), jar')
    BY <1>2, <1>3, <2>2, OpensKnowIt
  <2> QED
    BY <2>1, <2>2 DEF HearsAny, HearsUpgrade, HearsCall, HearsSession,
       HearsLogin, HearsLogout
<1> QED
  BY <1>2, <1>4, <1>5, JarLastsStep

LEMMA StepKeepsJarLasts == IInv /\ JarLasts /\ [Next]_vars => JarLasts'
<1> SUFFICES ASSUME IInv, JarLasts, [Next]_vars PROVE JarLasts'
  OBVIOUS
<1>1. CASE HashChange \/ Poll \/ User
  BY <1>1, UserJarLasts
<1>2. ASSUME NEW s \in Slots, Serves(s) \/ Loses(s) PROVE JarLasts'
  BY <1>2, ServerJarLasts
<1>3. ASSUME NEW s \in Slots, HearsAny(s) PROVE JarLasts'
  BY <1>3, HearsJarLasts
<1>4. CASE Tick
  BY <1>4 DEF Tick, Free, JarLasts
<1>5. CASE OtherGuess \/ UNCHANGED vars
  BY <1>5 DEF OtherGuess, browser, vars, JarLasts, KnowsIt, Lasts, Keeps
<1> QED
  BY <1>1, <1>2, <1>3, <1>4, <1>5 DEF Next

(* What a step does to the session of a list that is open.                 *)
KeptStep ==
    page = "list" /\ jar > 0 /\ jar' = 0 =>
        \E s \in Slots : req[s] # Idle /\ req[s].kind = "logout"

LEMMA StepKeepsIn ==
  ASSUME Ttl >= 3, IInv, JarLasts, [Next]_vars
  PROVE  KeptStep
<1> SUFFICES ASSUME page = "list", jar > 0, jar' = 0
             PROVE  \E s \in Slots : req[s] # Idle /\ req[s].kind = "logout"
  BY DEF KeptStep
<1>1. CASE jar' = jar
  BY <1>1
<1>2. CASE Tick
  <2>1. Lasts(jar) /\ jar \in 0 .. Ttl
    BY <1>2 DEF Tick, JarLasts, IInv, TypeOK
  <2>2. jar' = jar - 1
    BY <1>2 DEF Tick
  <2> QED
    BY <2>1, <2>2, LifeAssumption DEF Lasts
<1>3. ASSUME NEW s \in Slots, NEW kinds \in SUBSET Kinds, Hears(s, kinds)
      PROVE  req[s] # Idle /\ req[s].kind = "logout"
  <2>1. req[s].sets = 0
    BY <1>3, HeardLasts
  <2> QED
    BY <1>3, <2>1 DEF Hears, JarLasts, KnowsIt
<1>4. ASSUME NEW s \in Slots, HearsAny(s)
      PROVE  req[s] # Idle /\ req[s].kind = "logout"
  <2>1. /\ {"upgrade"} \in SUBSET Kinds /\ {"call"} \in SUBSET Kinds
        /\ {"session"} \in SUBSET Kinds /\ {"logout"} \in SUBSET Kinds
        /\ {"right", "wrong"} \in SUBSET Kinds
    BY DEF Kinds, Gated
  <2> QED
    BY <1>3, <1>4, <2>1 DEF HearsAny, HearsUpgrade, HearsCall, HearsSession,
       HearsLogin, HearsLogout
<1>5. CASE OtherGuess \/ HashChange \/ Poll \/ User \/ UNCHANGED vars
  BY <1>1, <1>5 DEF OtherGuess, browser, HashChange, Poll, User, Submits,
     LogsOut, Connects, Reloads, UserGoes, vars
<1>6. ASSUME NEW s \in Slots, Serves(s) \/ Loses(s) PROVE jar' = jar
  BY <1>6 DEF Serves, Gate, LoginRoute, LogoutRoute, Loses
<1> QED
  BY <1>1, <1>2, <1>4, <1>5, <1>6 DEF Next

(* If a token lives for three polls of the list or more, the list that is  *)
(* open keeps its session until somebody logs out: whatever is under way   *)
(* or is lost, the answer to a poll finds a jar past half its life and     *)
(* fills it, or one that is not (session.ts, shouldRenew; gate.ts).        *)
THEOREM SpecKeptIn ==
  ASSUME Ttl >= 3
  PROVE  Spec => KeptIn
<1>1. IInv /\ JarLasts /\ [Next]_vars => KeptStep
  BY StepKeepsIn
<1> QED
  BY <1>1, SpecIInv, InitJarLasts, StepKeepsJarLasts, PTL
     DEF Spec, KeptIn, KeptStep

=============================================================================
