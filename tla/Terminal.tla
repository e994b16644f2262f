------------------------------ MODULE Terminal ------------------------------
(***************************************************************************)
(* GET /instances/:id/terminal: one WebSocket, the exec it is attached to  *)
(* and the bridge between them (terminal/routes.ts, terminal/bridge.ts,    *)
(* DockerodeTerminalSession), from the upgrade to the end of both sides.   *)
(*                                                                         *)
(* The bytes are left out: frames and chunks are numbered in the order in  *)
(* which the browser and the exec send them.                               *)
(***************************************************************************)
EXTENDS Naturals, Sequences

CONSTANTS MaxFrames, \* frames the browser sends
          Controls,  \* those of them that are control messages
          MaxChunks  \* chunks the exec writes

ASSUME BoundsAreNaturals == MaxFrames \in Nat /\ MaxChunks \in Nat
ASSUME ControlsAreFrames == Controls \subseteq 1 .. MaxFrames

VARIABLES browser,  \* "there", "silent" (a lid closed) or "left"
          typed,    \* frames the browser has sent
          screen,   \* chunks the browser has shown
          sock,     \* readyState at the server: "open", "closing", "closed"
          held,     \* socket.pause() is in force
          taken,    \* frames the server has taken from the socket
          route,    \* "attaching", "wired" or "refused"
          exec,     \* the tmux client: "none", "running", "ended"
          stdin,    \* frames written to the exec
          written,  \* chunks the exec has written
          stream,   \* the duplex: "none", "open", "ended", "broken" or
                    \* "destroyed"
          read,     \* chunks the bridge has read
          paused,   \* stream.pause() is in force
          unsent,   \* chunks handed to the socket and not out yet
          ending,   \* endSocket: "no", "asked" for the exit code, "done"
          leaving,  \* the detach sequence was written
          beating,  \* the heartbeat's interval runs
          alive,    \* a pong came since the last ping
          early     \* history: the socket closed before it was wired

client == <<browser, typed, screen>>
socket == <<sock, held, taken>>
process == <<exec, written>>
pipe == <<stream, read, paused, unsent>>
bridge == <<ending, leaving, beating, alive>>
vars == <<client, socket, process, pipe, bridge, route, stdin, early>>

-----------------------------------------------------------------------------
UpTo(n) == [i \in 1 .. n |-> i]
IsKey(n) == n \notin Controls

TypeOK ==
    /\ browser \in {"there", "silent", "left"}
    /\ typed \in 0 .. MaxFrames
    /\ screen \in Seq(1 .. MaxChunks)
    /\ sock \in {"open", "closing", "closed"}
    /\ held \in BOOLEAN
    /\ taken \in 0 .. typed
    /\ route \in {"attaching", "wired", "refused"}
    /\ exec \in {"none", "running", "ended"}
    /\ stdin \in Seq(1 .. MaxFrames)
    /\ written \in 0 .. MaxChunks
    /\ stream \in {"none", "open", "ended", "broken", "destroyed"}
    /\ read \in 0 .. written
    /\ paused \in BOOLEAN
    /\ unsent \in Seq(1 .. MaxChunks)
    /\ ending \in {"no", "asked", "done"}
    /\ leaving \in BOOLEAN /\ beating \in BOOLEAN
    /\ alive \in BOOLEAN /\ early \in BOOLEAN

\* The upgrade is complete, the handler has paused the socket and asks for the
\* session.
Init ==
    /\ browser = "there" /\ typed = 0 /\ screen = <<>>
    /\ sock = "open" /\ held = TRUE /\ taken = 0
    /\ route = "attaching"
    /\ exec = "none" /\ stdin = <<>> /\ written = 0
    /\ stream = "none" /\ read = 0 /\ paused = FALSE /\ unsent = <<>>
    /\ ending = "no" /\ leaving = FALSE /\ beating = FALSE /\ alive = TRUE
    /\ early = FALSE

-----------------------------------------------------------------------------
(* The browser, and what the network does to it.                           *)

Sends ==
    /\ browser = "there" /\ sock # "closed"
    /\ typed < MaxFrames
    /\ typed' = typed + 1
    /\ UNCHANGED <<browser, screen, socket, process, pipe, bridge, route,
                   stdin, early>>

Leaves ==
    /\ browser = "there"
    /\ browser' = "left"
    /\ UNCHANGED <<typed, screen, socket, process, pipe, bridge, route,
                   stdin, early>>

FallsSilent ==
    /\ browser = "there"
    /\ browser' = "silent"
    /\ UNCHANGED <<typed, screen, socket, process, pipe, bridge, route,
                   stdin, early>>

\* socket.on('pong').
Answers ==
    /\ beating /\ ~alive /\ browser = "there" /\ sock = "open" /\ ~held
    /\ alive' = TRUE
    /\ UNCHANGED <<client, socket, process, pipe, ending, leaving, beating,
                   route, stdin, early>>

-----------------------------------------------------------------------------
(* The 'close' event of the socket.  The bridge hears it if it is there.   *)

\* Deviation: the stream is destroyed, which does not end the exec.
DestroysOnly ==
    /\ stream' = IF stream = "broken" THEN "broken" ELSE "destroyed"
    /\ UNCHANGED leaving

\* session.close(): asks tmux to leave, if the stream still takes it.
CloseSession ==
    IF stream = "open"
    THEN leaving' = TRUE /\ UNCHANGED stream
    ELSE /\ stream' = IF stream = "broken" THEN "broken" ELSE "destroyed"
         /\ UNCHANGED leaving

CloseEvent ==
    /\ sock' = "closed"
    /\ IF route = "wired"
       THEN CloseSession /\ beating' = FALSE /\ UNCHANGED early
       ELSE /\ early' = (early \/ route = "attaching")
            /\ UNCHANGED <<stream, leaving, beating>>
    /\ UNCHANGED <<held, taken, process, read, paused, unsent, ending, alive,
                   route, stdin>>

\* The close frame comes behind everything the browser has sent.
HearsClose ==
    /\ browser = "left" /\ sock # "closed" /\ ~held /\ taken = typed
    /\ CloseEvent
    /\ UNCHANGED client

\* The connection is reset: that needs nobody to read.
Resets ==
    /\ browser # "silent" /\ sock # "closed"
    /\ browser' = "left"
    /\ CloseEvent
    /\ UNCHANGED <<typed, screen>>

\* The handshake the server began: `ws` ends it, after a timeout if need be.
ClosesDone ==
    /\ sock = "closing"
    /\ browser' = IF browser = "there" THEN "left" ELSE browser
    /\ CloseEvent
    /\ UNCHANGED <<typed, screen>>

-----------------------------------------------------------------------------
(* The route.                                                              *)

\* Docker starts the exec ...
ExecStarts ==
    /\ route = "attaching" /\ exec = "none"
    /\ exec' = "running"
    /\ UNCHANGED <<client, socket, written, pipe, bridge, route, stdin, early>>

\* ... and answers: bridgeTerminal, and `finally` in the same turn.
Wires ==
    /\ route = "attaching" /\ exec # "none"
    /\ route' = "wired"
    /\ stream' = "open"
    /\ beating' = TRUE /\ alive' = TRUE
    /\ held' = FALSE
    /\ UNCHANGED <<client, sock, taken, process, read, paused, unsent, ending,
                   leaving, stdin, early>>

\* No instance, no container, no session yet, no Docker.
Refuses ==
    /\ route = "attaching" /\ exec = "none"
    /\ route' = "refused"
    /\ sock' = IF sock = "open" THEN "closing" ELSE sock
    /\ held' = FALSE
    /\ UNCHANGED <<client, taken, process, pipe, bridge, stdin, early>>

-----------------------------------------------------------------------------
(* Browser to container.                                                   *)

\* Deviation: nobody pauses the socket.
TakesAtOnce ==
    /\ sock # "closed" /\ taken < typed
    /\ taken' = taken + 1
    /\ stdin' = IF route = "wired" /\ stream = "open" /\ IsKey(taken + 1)
                THEN Append(stdin, taken + 1) ELSE stdin
    /\ UNCHANGED <<client, sock, held, process, pipe, bridge, route, early>>

\* A key goes to the exec; a control message resizes it or is answered, and
\* changes nothing here.  A frame that nobody listens for is gone.
TakesFrame ==
    /\ sock # "closed" /\ ~held /\ taken < typed
    /\ taken' = taken + 1
    /\ stdin' = IF route = "wired" /\ stream = "open" /\ IsKey(taken + 1)
                THEN Append(stdin, taken + 1) ELSE stdin
    /\ UNCHANGED <<client, sock, held, process, pipe, bridge, route, early>>

-----------------------------------------------------------------------------
(* Container to browser.                                                   *)

ExecWrites ==
    /\ exec = "running" /\ written < MaxChunks
    /\ written' = written + 1
    /\ UNCHANGED <<client, socket, exec, pipe, bridge, route, stdin, early>>

\* Deviation: the stream runs on while a frame is under way.
ReadsOn ==
    /\ stream = "open" /\ read < written
    /\ read' = read + 1
    /\ unsent' = IF sock = "open" THEN Append(unsent, read + 1) ELSE unsent
    /\ UNCHANGED <<client, socket, process, stream, paused, bridge, route,
                   stdin, early>>

\* Deviation: one chunk more than there is.
ReadsOneTooMany ==
    /\ stream = "open" /\ ~paused /\ read <= written
    /\ read' = read + 1
    /\ UNCHANGED <<client, socket, process, stream, paused, unsent, bridge,
                   route, stdin, early>>

\* stream.on('data').
ReadsChunk ==
    /\ stream = "open" /\ ~paused /\ read < written
    /\ read' = read + 1
    /\ IF sock = "open"
       THEN unsent' = Append(unsent, read + 1) /\ paused' = TRUE
       ELSE UNCHANGED <<unsent, paused>>
    /\ UNCHANGED <<client, socket, process, stream, bridge, route, stdin,
                   early>>

\* Deviation: `error !== undefined` takes the null of a success for an error,
\* and an error does not resume.
GoesOutForGood ==
    /\ unsent # <<>> /\ sock # "closed"
    /\ unsent' = Tail(unsent)
    /\ screen' = IF browser = "there" THEN Append(screen, Head(unsent))
                 ELSE screen
    /\ UNCHANGED <<browser, typed, socket, process, stream, read, paused,
                   bridge, route, stdin, early>>

\* The frame is out: the callback resumes the stream.
GoesOut ==
    /\ unsent # <<>> /\ sock # "closed"
    /\ unsent' = Tail(unsent)
    /\ screen' = IF browser = "there" THEN Append(screen, Head(unsent))
                 ELSE screen
    /\ paused' = FALSE
    /\ UNCHANGED <<browser, typed, socket, process, stream, read, bridge,
                   route, stdin, early>>

\* The socket closed first: the callback has an error and resumes as well.
SendFails ==
    /\ unsent # <<>> /\ sock = "closed"
    /\ unsent' = <<>>
    /\ paused' = FALSE
    /\ UNCHANGED <<client, socket, process, stream, read, bridge, route,
                   stdin, early>>

-----------------------------------------------------------------------------
(* The ends.                                                               *)

\* The human detaches, the shell exits, the container stops.
SessionEnds ==
    /\ exec = "running"
    /\ exec' = "ended"
    /\ UNCHANGED <<client, socket, written, pipe, bridge, route, stdin, early>>

\* tmux obeys the detach sequence, whatever became of the stream since.
Detaches ==
    /\ exec = "running" /\ leaving
    /\ exec' = "ended"
    /\ UNCHANGED <<client, socket, written, pipe, bridge, route, stdin, early>>

\* Deviation: the flag is set before it is tested.
SetBeforeTested == ending' = "done"

\* endSocket, once: it asks Docker for the exit code.
EndSocket == ending' = IF ending = "no" THEN "asked" ELSE ending

\* Deviation: the end is taken from the exec instead of the stream.
EndsWithExec ==
    /\ stream = "open" /\ exec = "ended"
    /\ stream' = "ended"
    /\ EndSocket
    /\ UNCHANGED <<client, socket, process, read, paused, unsent, leaving,
                   beating, alive, route, stdin, early>>

\* 'end' comes after the last chunk was read.
StreamEnds ==
    /\ stream = "open" /\ exec = "ended" /\ ~paused /\ read = written
    /\ stream' = "ended"
    /\ EndSocket
    /\ UNCHANGED <<client, socket, process, read, paused, unsent, leaving,
                   beating, alive, route, stdin, early>>

\* 'error': the connection to the daemon is lost.
StreamBreaks ==
    /\ stream = "open"
    /\ stream' = "broken"
    /\ EndSocket
    /\ UNCHANGED <<client, socket, process, read, paused, unsent, leaving,
                   beating, alive, route, stdin, early>>

\* The backstop of session.close() destroys the stream, and 'close' follows.
Backstop ==
    /\ stream = "open" /\ leaving
    /\ stream' = "destroyed"
    /\ EndSocket
    /\ UNCHANGED <<client, socket, process, read, paused, unsent, leaving,
                   beating, alive, route, stdin, early>>

\* Docker answers the question for the exit code.
ExitKnown ==
    /\ ending = "asked"
    /\ ending' = "done"
    /\ sock' = IF sock = "open" THEN "closing" ELSE sock
    /\ UNCHANGED <<client, held, taken, process, pipe, leaving, beating,
                   alive, route, stdin, early>>

\* The heartbeat: a ping, or the end of a peer that did not answer the last
\* one.  A browser that is there answers within the interval.
Pings ==
    /\ beating /\ alive
    /\ alive' = FALSE
    /\ UNCHANGED <<client, socket, process, pipe, ending, leaving, beating,
                   route, stdin, early>>

Terminates ==
    /\ beating /\ ~alive /\ browser # "there" /\ sock # "closed"
    /\ CloseEvent
    /\ UNCHANGED client

-----------------------------------------------------------------------------
\* What the server, `ws`, Docker and tmux do by themselves.
Attach == ExecStarts \/ Wires \/ Refuses
Closing == HearsClose \/ ClosesDone
Output == ReadsChunk \/ GoesOut \/ SendFails
Ends == Detaches \/ StreamEnds \/ Backstop \/ ExitKnown
Heartbeat == Pings \/ Terminates

Next ==
    \/ Sends \/ Leaves \/ FallsSilent \/ Answers \/ Resets
    \/ Attach \/ Closing \/ TakesFrame \/ Output \/ Ends \/ Heartbeat
    \/ ExecWrites \/ SessionEnds \/ StreamBreaks

\* Docker answers, timers fire, events are handled, and a browser that is
\* there takes what it is sent and answers pings.  That the human types,
\* leaves or detaches, that the exec writes and that anything breaks is never
\* taken for granted.
Fairness ==
    /\ WF_vars(Attach) /\ WF_vars(Closing) /\ WF_vars(TakesFrame)
    /\ WF_vars(ReadsChunk) /\ WF_vars(SendFails)
    /\ WF_vars(GoesOut /\ browser = "there")
    /\ WF_vars(Detaches) /\ WF_vars(StreamEnds) /\ WF_vars(Backstop)
    /\ WF_vars(ExitKnown)
    /\ WF_vars(Pings) /\ WF_vars(Terminates) /\ WF_vars(Answers)

Spec == Init /\ [][Next]_vars
FairSpec == Spec /\ Fairness

-----------------------------------------------------------------------------
(* Properties.                                                             *)

\* While the exec listens, it has got every key the server took from the
\* socket, in order: those that were sent during the attach included, which
\* is what pausing the socket is for (terminal/routes.ts).
NoKeyIsLost ==
    stream = "open" =>
        /\ {stdin[i] : i \in DOMAIN stdin} = {n \in 1 .. taken : IsKey(n)}
        /\ \A i, j \in DOMAIN stdin : i < j => stdin[i] < stdin[j]

\* The server never holds more than one frame of output, and holds it while
\* the stream is paused: a slow client cannot make it buffer (bridge.ts).
OneFrameAtATime ==
    /\ Len(unsent) <= 1
    /\ unsent # <<>> => paused

\* A session that ends is not cut short: when the server closes the socket,
\* everything the exec wrote is on the screen, in order.
SeenToTheEnd ==
    (ending = "done" /\ stream = "ended" /\ sock = "closing" /\
     browser = "there") => screen = UpTo(written)

\* Once a browser is gone, with a close frame or without any sign, its tmux
\* client does not stay attached.  Two cases are beyond the bridge: a stream
\* that broke leaves it no way to ask, and a socket that closed before it was
\* wired has told nobody (`early`).
ExecEnds ==
    (browser # "there") ~>
        [](exec # "running" \/ stream = "broken" \/ early)

\* Output reaches a browser that stays: no frame leaves the stream paused.
ScreenCatchesUp ==
    \A n \in 1 .. MaxChunks :
        (written >= n) ~> (\/ Len(screen) >= n
                           \/ browser # "there" \/ sock # "open"
                           \/ stream = "broken")

\* A session that ended is not shown as a console that is still open.
EndIsTold == (route = "wired" /\ exec = "ended") ~> (sock = "closed")

\* No frame and no end of a session is stuck in the server: what the exec
\* says and that it ended reach a browser that stays (terminal/bridge.ts).
ConsoleKeepsUp == ScreenCatchesUp /\ EndIsTold

=============================================================================
