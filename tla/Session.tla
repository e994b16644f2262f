------------------------------- MODULE Session -------------------------------
(***************************************************************************)
(* Who is logged in: the login route with its brake on wrong guesses       *)
(* (server/src/auth/routes.ts), the stateless session cookie (session.ts,  *)
(* gate.ts, cookie.ts), and the one browser that carries it: its jar, its  *)
(* requests under way (web/src/api.ts) and the page the router shows       *)
(* (main.ts, router.ts, views/login.ts).                                   *)
(*                                                                         *)
(* The server keeps no session: a token is good until it expires, and what *)
(* a browser holds is what the answers that reached it last have set.      *)
(***************************************************************************)
EXTENDS Naturals, FiniteSets

CONSTANTS
    Addresses,      \* clients that log in
    Home,           \* the address of the browser that is modelled
    Slots,          \* bound: requests of that browser at a time
    Idle,           \* a slot without a request
    Ttl,            \* the life of a token, in ticks
    MaxFailures,    \* MAX_FAILURES
    Window,         \* WINDOW_MS, in ticks
    MaxTracked,     \* MAX_TRACKED
    MaxFaults       \* bound: requests the network loses

ASSUME HomeAssumption == Home \in Addresses /\ IsFiniteSet(Addresses)
ASSUME LifeAssumption == Ttl \in Nat \ {0} /\ Window \in Nat \ {0}
ASSUME BrakeAssumption ==
    MaxFailures \in Nat \ {0} /\ MaxTracked \in Nat /\ MaxFaults \in Nat

VARIABLES
    failures,       \* per address: wrong guesses counted, ticks left of them
    jar,            \* ticks left of the token in the browser, 0 for none
    hash,           \* window.location.hash, as the route it stands for
    page,           \* the view that is mounted, or "boot"
    req,            \* per slot: the request under way, or Idle
    asked,          \* a poll of the list was answered since the last tick
    gone,           \* logged out for good: see HearsLogout
    faults

vars == <<failures, jar, hash, page, req, asked, gone, faults>>

-----------------------------------------------------------------------------

Views == {"login", "list", "console"}
Gated == {"session", "call", "upgrade"}
Kinds == Gated \cup {"right", "wrong", "logout"}

(* A request carries the token the jar held, knows whether the view that   *)
(* sent it is still there, and once answered what the answer says and what *)
(* it sets the cookie to; Ttl + 1 where it sets none.                      *)
Keeps == Ttl + 1
Answers == {"none", "ok", "unauthorized", "refused"}
Request == [kind : Kinds, token : 0 .. Ttl, live : BOOLEAN,
            answer : Answers, sets : 0 .. Keeps]

TypeOK ==
    /\ failures \in [Addresses -> [count : 0 .. MaxFailures,
                                   left : 0 .. Window]]
    /\ jar \in 0 .. Ttl
    /\ hash \in Views /\ page \in Views \cup {"boot"}
    /\ req \in [Slots -> Request \cup {Idle}]
    /\ asked \in BOOLEAN /\ gone \in BOOLEAN
    /\ faults \in 0 .. MaxFaults

Sent(kind) == [kind |-> kind, token |-> jar, live |-> TRUE,
               answer |-> "none", sets |-> Keeps]

(* The page is loaded at any address, with or without a session; the boot  *)
(* asks for it before anything is painted.                                 *)
Init ==
    /\ failures = [a \in Addresses |-> [count |-> 0, left |-> 0]]
    /\ jar \in 0 .. Ttl /\ hash \in Views /\ page = "boot"
    /\ LET s == CHOOSE t \in Slots : TRUE
       IN  req = [t \in Slots |-> IF t = s THEN Sent("session") ELSE Idle]
    /\ asked = FALSE /\ gone = FALSE /\ faults = 0

browser == <<jar, hash, page, req, asked, gone>>
view    == <<hash, page, asked, gone>>

-----------------------------------------------------------------------------
(* The brake on wrong guesses                                              *)

Tracked(f) == {a \in Addresses : f[a].count > 0}
Live(f, a) == f[a].count > 0 /\ f[a].left > 0
NoEntry    == [count |-> 0, left |-> 0]

Locked(a) == Live(failures, a) /\ failures[a].count >= MaxFailures

(* What `blocked` leaves behind when it says 0.                            *)
Forgotten(a) ==
    IF Live(failures, a) THEN failures ELSE [failures EXCEPT ![a] = NoEntry]

Purged(f) == [a \in Addresses |-> IF Live(f, a) THEN f[a] ELSE NoEntry]

(* recordFailure *)
Recorded(f, a) ==
    LET g == IF Cardinality(Tracked(f)) >= MaxTracked THEN Purged(f) ELSE f
    IN  IF Live(g, a) THEN [g EXCEPT ![a].count = @ + 1]
        ELSE [g EXCEPT ![a] = [count |-> 1, left |-> Window]]

(* Deviation: an attempt while the address is blocked counts as one more.  *)
CountsBlocked(a) == [failures EXCEPT ![a].count = @ + 1]

(* A blocked attempt is answered before anything is recorded.              *)
BlockedAttempt(a) == failures

(* POST /login from address a; the answer is the value of `verdict`.       *)
Guess(a, right, verdict) ==
    \/ /\ Locked(a) /\ verdict = "refused"
       /\ failures' = BlockedAttempt(a)
    \/ /\ ~Locked(a) /\ ~right /\ verdict = "refused"
       /\ failures' = Recorded(Forgotten(a), a)
    \/ /\ ~Locked(a) /\ right /\ verdict = "ok"
       /\ failures' = [failures EXCEPT ![a] = NoEntry]

(* Somebody at another address.                                            *)
OtherGuess ==
    /\ \E a \in Addresses \ {Home}, right \in BOOLEAN, v \in Answers :
           Guess(a, right, v)
    /\ UNCHANGED <<browser, faults>>

-----------------------------------------------------------------------------
(* The server answers                                                      *)

(* verify: a token of this server is good until it expires.                *)
Verified(token) == token > 0

(* Deviations: no renewal; a renewal that does not ask what it renews.     *)
NeverRenew(token) == FALSE
RenewsAnything(token) == 2 * token < Ttl

(* shouldRenew, behind verify: past half the lifetime.                     *)
ShouldRenew(token) == Verified(token) /\ 2 * token < Ttl

Awaiting(s, kinds) ==
    req[s] # Idle /\ req[s].answer = "none" /\ req[s].kind \in kinds

Answer(s, answer, sets) ==
    req' = [req EXCEPT ![s].token = 0, ![s].answer = answer, ![s].sets = sets]

(* sessionGate and the handler behind it.  A 101 carries no cookie.        *)
Gate(s) ==
    /\ Awaiting(s, Gated)
    /\ Answer(s, IF Verified(req[s].token) THEN "ok" ELSE "unauthorized",
              IF req[s].kind # "upgrade" /\ ShouldRenew(req[s].token)
              THEN Ttl ELSE Keeps)
    /\ UNCHANGED <<failures, jar, view, faults>>

LoginRoute(s) ==
    /\ Awaiting(s, {"right", "wrong"})
    /\ \E v \in {"ok", "refused"} :
           /\ Guess(Home, req[s].kind = "right", v)
           /\ Answer(s, v, IF v = "ok" THEN Ttl ELSE Keeps)
    /\ UNCHANGED <<jar, view, faults>>

(* Public, and the same answer whatever the cookie.                        *)
LogoutRoute(s) ==
    /\ Awaiting(s, {"logout"})
    /\ Answer(s, "ok", 0)
    /\ UNCHANGED <<failures, jar, view, faults>>

(* The server is down or the answer is lost on its way.                    *)
Loses(s) ==
    /\ faults < MaxFaults /\ faults' = faults + 1
    /\ req[s] # Idle
    /\ Answer(s, "refused", Keeps)
    /\ UNCHANGED <<failures, jar, view>>

-----------------------------------------------------------------------------
(* The browser                                                             *)

Free == {s \in Slots : req[s] = Idle}

(* Slots are interchangeable, so any free one will do.                     *)
SendsIn(r, kind, token) ==
    LET s == CHOOSE t \in Slots : r[t] = Idle
    IN  /\ \E t \in Slots : r[t] = Idle
        /\ req' = [r EXCEPT ![s] = [Sent(kind) EXCEPT !.token = token]]

Sends(kind) == SendsIn(req, kind, jar)

(* The view stops listening to what it has asked; the requests go on.  A   *)
(* logout's handler never asks whether its view is still there.            *)
Unmounted ==
    [s \in Slots |-> IF req[s] = Idle \/ req[s].kind = "logout" THEN req[s]
                     ELSE [req[s] EXCEPT !.live = FALSE]]

(* What a view asks for as it is mounted, sent with the jar as it is then. *)
Opens(v, r, token) ==
    IF v = "login" THEN req' = r ELSE SendsIn(r, "call", token)

(* render, for a hashchange: the outgoing view is destroyed first.         *)
HashChange ==
    /\ page # "boot" /\ page # hash
    /\ page' = hash /\ asked' = FALSE
    /\ Opens(hash, Unmounted, jar)
    /\ UNCHANGED <<failures, jar, hash, gone, faults>>

(* Links, the back button, a bookmark.                                     *)
UserGoes(v) ==
    /\ page = hash /\ v # hash /\ hash' = v
    /\ UNCHANGED <<failures, jar, page, req, asked, gone, faults>>

(* setInterval in the list: it does not wait for the answer before.        *)
Poll ==
    /\ page = "list" /\ page = hash /\ Sends("call")
    /\ UNCHANGED <<failures, jar, view, faults>>

(* The form's button is disabled while its own attempt is under way.       *)
Submits ==
    /\ page = "login" /\ page = hash
    /\ ~ \E t \in Slots : /\ req[t] # Idle /\ req[t].live
                          /\ req[t].kind \in {"right", "wrong"}
    /\ \E k \in {"right", "wrong"} : Sends(k)
    /\ UNCHANGED <<failures, jar, view, faults>>

LogsOut ==
    /\ page = "list" /\ page = hash /\ Sends("logout")
    /\ UNCHANGED <<failures, jar, view, faults>>

(* connect: as the console opens, and its Reconnect button.                *)
Connects ==
    /\ page = "console" /\ page = hash /\ Sends("upgrade")
    /\ UNCHANGED <<failures, jar, view, faults>>

Reloads ==
    /\ page # "boot"
    /\ page' = "boot" /\ asked' = FALSE
    /\ SendsIn([t \in Slots |-> Idle], "session", jar)
    /\ UNCHANGED <<failures, jar, hash, gone, faults>>

-----------------------------------------------------------------------------
(* The browser hears an answer: the jar first, then who asked              *)

Hears(s, kinds) ==
    /\ req[s] # Idle /\ req[s].answer # "none" /\ req[s].kind \in kinds
    /\ jar' = IF req[s].sets = Keeps THEN jar ELSE req[s].sets
    /\ UNCHANGED <<failures, faults>>

Done(s) == [req EXCEPT ![s] = Idle]

(* Deviation: a refused call is an error of its view and nothing more.     *)
OnlyAnError(s) == UNCHANGED hash

(* onUnauthorized: the gate's refusal sends the page to the form, whoever  *)
(* asked and whether it still listens.                                     *)
OnUnauthorized(s) ==
    hash' = IF req[s].answer = "unauthorized" THEN "login" ELSE hash

(* A handshake that fails has no body: it is a 1006 close and nothing else *)
HearsUpgrade(s) ==
    /\ Hears(s, {"upgrade"})
    /\ req' = Done(s) /\ UNCHANGED view

HearsCall(s) ==
    /\ Hears(s, {"call"})
    /\ OnUnauthorized(s)
    /\ asked' = (asked \/ (req[s].live /\ req[s].answer = "ok"
                                       /\ page = "list"))
    /\ req' = Done(s) /\ UNCHANGED <<page, gone>>

(* The boot's own question: its answer and the first paint are one turn,   *)
(* and the hashchange of a redirect finds the page rendered.               *)
HearsSession(s) ==
    /\ Hears(s, {"session"})
    /\ OnUnauthorized(s)
    /\ IF page # "boot" THEN req' = Done(s) /\ UNCHANGED <<page, asked>>
       ELSE /\ page' = hash' /\ asked' = FALSE
            /\ Opens(hash', Done(s), jar')
    /\ UNCHANGED gone

(* The form goes to the list, unless it has been left meanwhile.           *)
HearsLogin(s) ==
    /\ Hears(s, {"right", "wrong"})
    /\ hash' = IF req[s].live /\ req[s].answer = "ok" THEN "list" ELSE hash
    /\ gone' = (gone /\ req[s].answer # "ok")
    /\ req' = Done(s) /\ UNCHANGED <<page, asked>>

Undoing == {s \in Slots : req[s] # Idle /\ req[s].kind # "logout"}

(* The list's handler goes to the form whatever came of it.  `gone` holds  *)
(* from a logout that no other request could undo, to the next login.      *)
HearsLogout(s) ==
    /\ Hears(s, {"logout"})
    /\ hash' = "login"
    /\ gone' = (gone \/ (req[s].answer = "ok" /\ Undoing = {}))
    /\ req' = Done(s) /\ UNCHANGED <<page, asked>>

(* Hours against seconds: nothing is under way, and a list that is open    *)
(* has been told something since the last one.                             *)
Tick ==
    /\ Free = Slots /\ page = hash /\ (page = "list" => asked)
    /\ jar' = IF jar = 0 THEN 0 ELSE jar - 1
    /\ failures' = [a \in Addresses |-> [failures[a] EXCEPT
                        !.left = IF @ = 0 THEN 0 ELSE @ - 1]]
    /\ asked' = FALSE
    /\ UNCHANGED <<hash, page, req, gone, faults>>

Serves(s) == Gate(s) \/ LoginRoute(s) \/ LogoutRoute(s)
HearsAny(s) == \/ HearsUpgrade(s) \/ HearsCall(s) \/ HearsSession(s)
               \/ HearsLogin(s) \/ HearsLogout(s)
User == \/ Submits \/ LogsOut \/ Connects \/ Reloads
        \/ \E v \in Views : UserGoes(v)

Next ==
    \/ OtherGuess \/ HashChange \/ Tick \/ Poll \/ User
    \/ \E s \in Slots : Serves(s) \/ Loses(s) \/ HearsAny(s)

Spec == Init /\ [][Next]_vars

(* The server answers, the browser handles what it is told, the list polls *)
(* and time passes.  Nobody has to log in, and nothing has to be lost.     *)
FairSpec ==
    /\ Spec
    /\ \A s \in Slots : WF_vars(Serves(s)) /\ WF_vars(HearsAny(s))
    /\ WF_vars(HashChange) /\ WF_vars(Poll)

-----------------------------------------------------------------------------

(* An address that has used up its guesses stays locked until its window   *)
(* has passed, whatever others do and however full the table is, and an    *)
(* attempt while it is locked neither counts nor prolongs it; beyond its   *)
(* limit the table gains no entry unless every window in it is open.       *)
(* (routes.ts, blocked and recordFailure)                                  *)
BrakeHolds ==
    [][/\ \A a \in Addresses : Locked(a) =>
              failures'[a] \in {failures[a], [failures[a] EXCEPT !.left = @ - 1]}
       /\ ~ Tracked(failures') \subseteq Tracked(failures) =>
              \/ Cardinality(Tracked(failures')) <= MaxTracked
              \/ \A a \in Tracked(failures') : Live(failures', a)
      ]_vars

(* A browser with the list open is never logged out by the passing of time *)
(* (session.ts: an active browser is never logged out mid-session).        *)
KeptIn ==
    [][page = "list" /\ jar > 0 /\ jar' = 0 =>
          \E s \in Slots : req[s] # Idle /\ req[s].kind = "logout"]_vars

(* Once logged out, with nothing else under way, no answer brings a        *)
(* session back: only a login does (gate.ts renews what it has verified).  *)
LogoutSticks == gone => jar = 0

(* A list whose session is gone ends at the form instead of repainting an  *)
(* error for ever (api.ts, onUnauthorized).                                *)
EndsAtTheForm ==
    (page = "list" /\ jar = 0)
        ~> (hash = "login" \/ page # "list" \/ jar > 0)

=============================================================================
