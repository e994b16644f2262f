----------------------------- MODULE ConsoleView -----------------------------
(***************************************************************************)
(* The console of an instance (web/src/views/console.ts,                   *)
(* web/src/terminal/session.ts): the socket to the terminal, the size of   *)
(* the screen, and the files attached to the prompt.  A socket's close     *)
(* event comes some time after it was closed, whoever closed it.           *)
(***************************************************************************)
EXTENDS Naturals, SequencesExt, Page

CONSTANTS
    Sizes,          \* columns and rows
    MaxSockets,     \* bound: connections made
    MaxResizes,     \* bound: changes of the screen
    MaxDrops,       \* bound: selections of files attached
    MaxFiles        \* bound: files in one of them

ASSUME ConsoleAssumption ==
    /\ Sizes \subseteq Nat \X Nat /\ Sizes # {}
    /\ MaxResizes \in Nat /\ MaxDrops \in Nat

VARIABLES
    sockets,        \* the state of every socket ever opened, in order
    panes,          \* the size each told its pane
    connection,     \* the one that is sent to, 0 for undefined
    reconnect,      \* the Reconnect button is there
    screen,         \* the size of the screen
    sent,           \* the size the page believes the pane has
    timer,          \* a resize is being debounced
    lost,           \* history: the last resize met a socket not open yet
    resizes,
    uploading,      \* Attach is disabled
    sending,        \* the selections being sent: <<selection, file, of>>
    typed,          \* history: the paths typed into the prompt
    drops

termVars == <<sockets, panes, connection, reconnect, screen, sent, timer, lost,
              resizes>>
attachVars == <<uploading, sending, typed, drops>>
consoleVars == <<termVars, attachVars>>

-----------------------------------------------------------------------------

(* connect() at the end of the mount, whatever size the screen has.        *)
ConsoleInit ==
    /\ screen = (CHOOSE size \in Sizes : TRUE) /\ sent = screen
    /\ sockets = <<"connecting">> /\ panes = <<screen>> /\ connection = 1
    /\ reconnect = FALSE /\ timer = FALSE /\ lost = FALSE /\ resizes = 0
    /\ uploading = FALSE /\ sending = {} /\ typed = << >> /\ drops = 0

ConsoleTypeOK ==
    /\ sockets \in Seq({"connecting", "open", "closing", "closed"})
    /\ panes \in Seq(Sizes) /\ connection \in 0 .. Len(sockets)
    /\ screen \in Sizes /\ sent \in Sizes
    /\ reconnect \in BOOLEAN /\ timer \in BOOLEAN /\ lost \in BOOLEAN
    /\ resizes \in 0 .. MaxResizes /\ drops \in 0 .. MaxDrops
    /\ uploading \in BOOLEAN /\ typed \in Seq(Nat \X Nat)
    /\ sending \subseteq Nat \X Nat \X Nat

Live == {n \in DOMAIN sockets : sockets[n] \in {"connecting", "open"}}

(* TerminalConnection.close                                                *)
Closed(n) == [m \in DOMAIN sockets |->
                 IF m = n /\ m \in Live THEN "closing" ELSE sockets[m]]

(* Deviation: the button stays until the socket is open.                   *)
KeepsReconnect == UNCHANGED reconnect

HidesReconnect == reconnect' = FALSE

(* connect: the old connection is closed, the new one begins fitted.       *)
Connects ==
    /\ Mounted("console") /\ reconnect /\ Len(sockets) < MaxSockets
    /\ HidesReconnect
    /\ sockets' = Append(Closed(connection), "connecting")
    /\ sent' = screen /\ panes' = Append(panes, screen)
    /\ connection' = Len(sockets) + 1 /\ lost' = FALSE
    /\ UNCHANGED <<screen, timer, resizes, attachVars>>

Opens(n) ==
    /\ n \in DOMAIN sockets /\ sockets[n] = "connecting"
    /\ sockets' = [sockets EXCEPT ![n] = "open"]
    /\ UNCHANGED <<panes, connection, reconnect, screen, sent, timer, lost,
                   resizes, attachVars>>

(* onClose, of whichever socket: the handlers do not know which is theirs. *)
CloseArrives(n) ==
    /\ n \in DOMAIN sockets /\ sockets[n] # "closed"
    /\ sockets' = [sockets EXCEPT ![n] = "closed"]
    /\ IF destroyed THEN UNCHANGED <<reconnect, connection>>
       ELSE reconnect' = TRUE /\ connection' = 0
    /\ UNCHANGED <<panes, screen, sent, timer, lost, resizes, attachVars>>

(* The window, or the files panel beside the screen.                       *)
Resizes ==
    /\ Mounted("console") /\ resizes < MaxResizes /\ resizes' = resizes + 1
    /\ screen' \in Sizes \ {screen} /\ timer' = TRUE
    /\ UNCHANGED <<sockets, panes, connection, reconnect, sent, lost,
                   attachVars>>

(* Deviation: one dimension that stayed is enough to skip the resize.      *)
SameEither(a, b) == a[1] = b[1] \/ a[2] = b[2]

Same(a, b) == a[1] = b[1] /\ a[2] = b[2]

(* applyFit.  A socket that is not open drops the message, and nobody      *)
(* sends it again.                                                         *)
Fits ==
    /\ Mounted("console") /\ timer /\ timer' = FALSE
    /\ IF Same(screen, sent) THEN UNCHANGED <<sent, panes, lost>>
       ELSE /\ sent' = screen
            /\ IF connection # 0 /\ sockets[connection] = "open"
               THEN /\ panes' = [panes EXCEPT ![connection] = screen]
                    /\ lost' = FALSE
               ELSE lost' = TRUE /\ UNCHANGED panes
    /\ UNCHANGED <<sockets, connection, reconnect, screen, resizes, attachVars>>

-----------------------------------------------------------------------------
(* Attachments                                                             *)

(* Deviation: Attach is disabled, a drop and a paste are not.              *)
AnyTime == TRUE

MayAttach == ~uploading

(* send, up to the first request                                           *)
Attaches ==
    /\ Mounted("console") /\ drops < MaxDrops /\ drops' = drops + 1
    /\ MayAttach /\ uploading' = TRUE
    /\ \E n \in 1 .. MaxFiles : sending' = sending \cup {<<drops + 1, 1, n>>}
    /\ UNCHANGED <<termVars, typed>>

(* The next request, or the end: after the last file or the first refusal. *)
(* The loop does not ask whether the page is still there.                  *)
Uploaded(s) ==
    /\ s \in sending
    /\ \/ /\ typed' = Append(typed, <<s[1], s[2]>>)
          /\ IF s[2] < s[3]
             THEN /\ sending' = (sending \ {s}) \cup {<<s[1], s[2] + 1, s[3]>>}
                  /\ UNCHANGED uploading
             ELSE sending' = sending \ {s} /\ uploading' = FALSE
       \/ sending' = sending \ {s} /\ uploading' = FALSE /\ UNCHANGED typed
    /\ UNCHANGED <<termVars, drops>>

-----------------------------------------------------------------------------

(* destroy: no timer, no observer, no socket.                              *)
LeavesConsole ==
    /\ Destroys("console")
    /\ sockets' = Closed(connection) /\ timer' = FALSE
    /\ UNCHANGED <<panes, connection, reconnect, screen, sent, lost, resizes,
                   attachVars>>

ConsoleNext ==
    /\ page = "console"
    /\ \/ Connects \/ Resizes \/ Fits \/ Attaches
       \/ \E n \in 1 .. MaxSockets : Opens(n) \/ CloseArrives(n)
       \/ \E s \in sending : Uploaded(s)

-----------------------------------------------------------------------------

(* A socket that is alive is the one that is written to and closed with    *)
(* the page: no close event of an older one takes it away, and none        *)
(* outlives the page (console.ts connect, onClose, destroy).               *)
NoOrphanSocket ==
    page = "console" => \A n \in Live : connection = n /\ ~destroyed

PaneFits ==
    ~timer /\ ~lost => \A n \in Live : panes[n] = screen

PathsInOrder ==
    \A i, j \in DOMAIN typed :
        i < j => \/ typed[i][1] < typed[j][1]
                 \/ typed[i][1] = typed[j][1] /\ typed[i][2] < typed[j][2]

(* The one live socket is the page's own, and what the pane behind it is   *)
(* told is true.  Once the debounce is over it has the size of the screen, *)
(* through whatever reconnects; only a resize that met a socket still      *)
(* connecting is lost to it (applyFit, session.ts ifOpen).  Paths are      *)
(* typed into it one selection after the other, each in its order          *)
(* (console.ts send).                                                      *)
ConsoleIsTrue == NoOrphanSocket /\ PaneFits /\ PathsInOrder

=============================================================================
