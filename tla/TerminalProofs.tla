--------------------------- MODULE TerminalProofs ---------------------------
(***************************************************************************)
(* Theorems about Terminal, for any number of frames and chunks: its       *)
(* types, that no key is lost, that one frame is held at a time, and that  *)
(* a session which ends was shown to its end.                              *)
(***************************************************************************)
EXTENDS Terminal, SequenceTheorems, TLAPS

\* Nothing has happened on either side before the bridge is wired.
Attaching ==
    /\ route = "attaching" => /\ held /\ taken = 0 /\ stdin = <<>>
                              /\ stream = "none"
    /\ stream = "none" => read = 0 /\ unsent = <<>> /\ screen = <<>>
    /\ stream = "open" => route = "wired"

\* The keys the server took, in order.
KeysInOrder ==
    /\ {stdin[i] : i \in DOMAIN stdin} = {n \in 1 .. taken : IsKey(n)}
    /\ \A i, j \in DOMAIN stdin : i < j => stdin[i] < stdin[j]

\* What was read is on the screen, or under way.
ShownInOrder ==
    \/ unsent = <<>> /\ screen = UpTo(read)
    \/ read > 0 /\ unsent = <<read>> /\ screen = UpTo(read - 1)

\* So it is for a browser that stayed, as long as the bridge did not give up.
Shown ==
    (browser = "there" /\ sock # "closed" /\
     stream \in {"none", "open", "ended"}) => ShownInOrder

\* The end of the stream comes after everything that was written.
EndedIsRead ==
    stream = "ended" => read = written /\ exec = "ended" /\ unsent = <<>>

\* A wired socket is closed by the server only once the stream is over.
ClosingIsOver ==
    /\ ending # "no" => stream \in {"ended", "broken", "destroyed"}
    /\ sock = "closing" => stream # "open" /\ route # "attaching"

IInv ==
    /\ TypeOK
    /\ Attaching
    /\ (stream = "open" => KeysInOrder)
    /\ OneFrameAtATime
    /\ Shown
    /\ EndedIsRead
    /\ ClosingIsOver

-----------------------------------------------------------------------------
(* Lemmas.                                                                 *)

\* Chunks shown one by one.
LEMMA UpToGrows ==
    ASSUME NEW n \in Nat, n > 0
    PROVE  Append(UpTo(n - 1), n) = UpTo(n)
BY DEF UpTo

LEMMA UpToType ==
    ASSUME NEW n \in Nat
    PROVE  UpTo(n) \in Seq(Nat) /\ Len(UpTo(n)) = n
BY DEF UpTo

\* A frame that goes out: the one under way, if there is only one.
LEMMA OneGoesOut ==
    ASSUME NEW S, NEW s \in Seq(S), s # <<>>, Len(s) <= 1
    PROVE  Tail(s) = <<>> /\ s = <<Head(s)>> /\ Head(s) \in S
<1>1. Len(s) = 1
  <2>1. Len(s) \in Nat \ {0}
    BY EmptySeq
  <2> QED BY <2>1
<1>2. Head(s) \in S /\ Tail(s) \in Seq(S) /\ Len(Tail(s)) = 0
  BY <1>1, HeadTailProperties
<1>3. Tail(s) = <<>>
  BY <1>2, EmptySeq
<1> QED BY <1>1, <1>2, <1>3

\* The 'close' event keeps the types.
LEMMA CloseEventType ==
    ASSUME TypeOK, CloseEvent
    PROVE  /\ sock' \in {"open", "closing", "closed"}
           /\ stream' \in {"none", "open", "ended", "broken", "destroyed"}
           /\ leaving' \in BOOLEAN /\ beating' \in BOOLEAN
           /\ early' \in BOOLEAN
BY DEF TypeOK, CloseEvent, CloseSession

\* Every step keeps the types.
LEMMA TypeStep == TypeOK /\ [Next]_vars => TypeOK'
<1> SUFFICES ASSUME TypeOK, [Next]_vars PROVE TypeOK'
  OBVIOUS
<1> USE DEF TypeOK, client, socket, process, pipe, bridge
<1>1. CASE Sends
  <2>1. typed' \in 0 .. MaxFrames /\ taken' \in 0 .. typed'
    BY <1>1, BoundsAreNaturals DEF Sends
  <2> QED BY <1>1, <2>1 DEF Sends
<1>2. CASE Leaves
  BY <1>2 DEF Leaves
<1>3. CASE FallsSilent
  BY <1>3 DEF FallsSilent
<1>4. CASE Answers
  BY <1>4 DEF Answers
<1>5. CASE HearsClose \/ Resets \/ ClosesDone \/ Terminates
  <2>1. CloseEvent /\ UNCHANGED <<typed, screen>>
    BY <1>5 DEF HearsClose, Resets, ClosesDone, Terminates
  <2>2. browser' \in {"there", "silent", "left"}
    BY <1>5 DEF HearsClose, Resets, ClosesDone, Terminates
  <2>3. /\ sock' \in {"open", "closing", "closed"}
        /\ stream' \in {"none", "open", "ended", "broken", "destroyed"}
        /\ leaving' \in BOOLEAN /\ beating' \in BOOLEAN
        /\ early' \in BOOLEAN
    BY <2>1, CloseEventType
  <2>4. UNCHANGED <<held, taken, exec, written, read, paused, unsent, ending,
                    alive, route, stdin>>
    BY <2>1 DEF CloseEvent
  <2> QED BY <2>1, <2>2, <2>3, <2>4
<1>6. CASE ExecStarts
  BY <1>6 DEF ExecStarts
<1>7. CASE Wires
  BY <1>7 DEF Wires
<1>8. CASE Refuses
  <2>1. sock' \in {"open", "closing", "closed"} /\ held' \in BOOLEAN
    BY <1>8 DEF Refuses
  <2> QED BY <1>8, <2>1 DEF Refuses
<1>9. CASE TakesFrame
  <2>1. taken + 1 \in 1 .. MaxFrames /\ taken' \in 0 .. typed'
    BY <1>9, BoundsAreNaturals DEF TakesFrame
  <2>2. stdin' \in Seq(1 .. MaxFrames)
    BY <1>9, <2>1, AppendProperties DEF TakesFrame
  <2> QED BY <1>9, <2>1, <2>2 DEF TakesFrame
<1>10. CASE ReadsChunk
  <2>1. read + 1 \in 1 .. MaxChunks /\ read' \in 0 .. written'
    BY <1>10, BoundsAreNaturals DEF ReadsChunk
  <2>2. unsent' \in Seq(1 .. MaxChunks)
    <3>1. Append(unsent, read + 1) \in Seq(1 .. MaxChunks)
      BY <2>1, AppendProperties
    <3>2. unsent' = unsent \/ unsent' = Append(unsent, read + 1)
      BY <1>10 DEF ReadsChunk
    <3> QED BY <3>1, <3>2
  <2>3. paused' \in BOOLEAN
    BY <1>10 DEF ReadsChunk
  <2> QED BY <1>10, <2>1, <2>2, <2>3 DEF ReadsChunk
<1>11. CASE GoesOut
  <2>1. Tail(unsent) \in Seq(1 .. MaxChunks) /\ Head(unsent) \in 1 .. MaxChunks
    BY <1>11, HeadTailProperties DEF GoesOut
  <2>2. screen' \in Seq(1 .. MaxChunks)
    BY <1>11, <2>1, AppendProperties DEF GoesOut
  <2>3. unsent' \in Seq(1 .. MaxChunks) /\ paused' \in BOOLEAN
    BY <1>11, <2>1 DEF GoesOut
  <2> QED BY <1>11, <2>2, <2>3 DEF GoesOut
<1>12. CASE SendFails
  <2>1. unsent' \in Seq(1 .. MaxChunks) /\ paused' \in BOOLEAN
    BY <1>12, EmptySeq DEF SendFails
  <2> QED BY <1>12, <2>1 DEF SendFails
<1>13. CASE ExecWrites
  <2>1. written' \in 0 .. MaxChunks /\ read' \in 0 .. written'
    BY <1>13, BoundsAreNaturals DEF ExecWrites
  <2> QED BY <1>13, <2>1 DEF ExecWrites
<1>14. CASE SessionEnds \/ Detaches
  BY <1>14 DEF SessionEnds, Detaches
<1>15. CASE StreamEnds
  BY <1>15 DEF StreamEnds, EndSocket
<1>16. CASE StreamBreaks
  BY <1>16 DEF StreamBreaks, EndSocket
<1>17. CASE Backstop
  BY <1>17 DEF Backstop, EndSocket
<1>18. CASE ExitKnown
  BY <1>18 DEF ExitKnown
<1>19. CASE Pings
  <2>1. alive' \in BOOLEAN
    BY <1>19 DEF Pings
  <2> QED BY <1>19, <2>1 DEF Pings
<1>20. CASE UNCHANGED vars
  BY <1>20 DEF vars
<1> HIDE DEF TypeOK, client, socket, process, pipe, bridge
<1> QED
  BY <1>1, <1>2, <1>3, <1>4, <1>5, <1>6, <1>7, <1>8, <1>9, <1>10, <1>11,
     <1>12, <1>13, <1>14, <1>15, <1>16, <1>17, <1>18, <1>19, <1>20
  DEF Next, Attach, Closing, Output, Ends, Heartbeat

-----------------------------------------------------------------------------
(* The invariant.                                                          *)

\* The parts of it whose variables a step leaves alone.
LEMMA KeysStay ==
    ASSUME KeysInOrder, UNCHANGED <<stdin, taken>>
    PROVE  KeysInOrder'
BY DEF KeysInOrder

LEMMA OutputStays ==
    ASSUME IInv, UNCHANGED pipe, UNCHANGED <<screen, exec, written>>,
           browser' = "there" => browser = "there",
           sock' # "closed" => sock # "closed"
    PROVE  /\ OneFrameAtATime'
           /\ Shown'
           /\ EndedIsRead'
BY DEF IInv, OneFrameAtATime, Shown, ShownInOrder, UpTo, EndedIsRead, pipe

\* Nobody is there any more to be shown anything.
LEMMA GoneIsShown ==
    ASSUME sock' = "closed" \/ stream' \in {"broken", "destroyed"}
    PROVE  Shown'
BY DEF Shown

\* The 'close' event: whatever the stream becomes, it is not opened.
LEMMA CloseEventStep ==
    ASSUME IInv, TypeOK', CloseEvent, UNCHANGED <<typed, screen>>
    PROVE  IInv'
<1>1. /\ sock' = "closed"
      /\ stream' \in {stream, "broken", "destroyed"}
      /\ stream' # stream => route = "wired"
      /\ ending # "no" => stream' \in {"ended", "broken", "destroyed"}
      /\ UNCHANGED <<held, taken, exec, written, read, paused, unsent, ending,
                      alive, route, stdin>>
  BY DEF CloseEvent, CloseSession, process, IInv, ClosingIsOver
<1>2. Attaching'
  BY <1>1 DEF IInv, Attaching
<1>3. stream' = "open" => KeysInOrder'
  BY <1>1, KeysStay DEF IInv
<1>4. OneFrameAtATime'
  BY <1>1 DEF IInv, OneFrameAtATime
<1>5. Shown'
  BY <1>1, GoneIsShown
<1>6. EndedIsRead'
  BY <1>1 DEF IInv, EndedIsRead
<1>7. ClosingIsOver'
  BY <1>1 DEF ClosingIsOver
<1> QED BY <1>2, <1>3, <1>4, <1>5, <1>6, <1>7 DEF IInv
\* Every step keeps the invariant.
LEMMA IInvStep == IInv /\ [Next]_vars => IInv'
<1> SUFFICES ASSUME IInv, [Next]_vars PROVE IInv'
  OBVIOUS
<1>0. TypeOK /\ TypeOK'
  BY TypeStep DEF IInv
<1>1. CASE Sends \/ Leaves \/ FallsSilent \/ Answers \/ Pings
  <2>1. /\ UNCHANGED <<screen, sock, held, taken, exec, written, pipe, stream,
                       read, unsent, ending, route, stdin>>
        /\ browser' = "there" => browser = "there"
    BY <1>1 DEF Sends, Leaves, FallsSilent, Answers, Pings, client, socket,
       process, pipe, bridge
  <2>2. Attaching' /\ ClosingIsOver'
    BY <2>1 DEF IInv, Attaching, ClosingIsOver
  <2>3. stream' = "open" => KeysInOrder'
    BY <2>1, KeysStay DEF IInv
  <2>4. OneFrameAtATime' /\ Shown' /\ EndedIsRead'
    BY <2>1, OutputStays
  <2> QED BY <1>0, <2>2, <2>3, <2>4 DEF IInv
<1>2. CASE HearsClose \/ Resets \/ ClosesDone \/ Terminates
  <2>1. CloseEvent /\ UNCHANGED <<typed, screen>>
    BY <1>2 DEF HearsClose, Resets, ClosesDone, Terminates, client
  <2> QED BY <1>0, <2>1, CloseEventStep
<1>3. CASE ExecStarts
  <2>1. /\ UNCHANGED <<browser, screen, sock, held, taken, written, pipe,
                       stream, read, paused, unsent, ending, route, stdin>>
        /\ stream = "none"
    BY <1>3 DEF ExecStarts, client, socket, pipe, bridge, IInv, Attaching
  <2>2. Attaching' /\ ClosingIsOver' /\ OneFrameAtATime' /\ EndedIsRead'
    BY <2>1 DEF IInv, Attaching, ClosingIsOver, OneFrameAtATime, EndedIsRead
  <2>3. Shown'
    BY <2>1 DEF IInv, Shown, ShownInOrder, UpTo
  <2> QED BY <1>0, <2>1, <2>2, <2>3 DEF IInv
<1>4. CASE Wires
  <2>1. /\ UNCHANGED <<browser, screen, sock, taken, exec, written, read,
                       paused, unsent, ending, stdin>>
        /\ route' = "wired" /\ stream' = "open"
        /\ stream = "none" /\ taken = 0 /\ stdin = <<>>
        /\ read = 0 /\ unsent = <<>> /\ screen = <<>>
    BY <1>4 DEF Wires, client, process, IInv, Attaching
  <2>2. Attaching' /\ OneFrameAtATime' /\ EndedIsRead'
    BY <2>1 DEF IInv, Attaching, OneFrameAtATime, EndedIsRead
  <2>3. KeysInOrder'
    BY <2>1 DEF KeysInOrder
  <2>4. Shown'
    BY <2>1 DEF Shown, ShownInOrder, UpTo
  <2>5. ClosingIsOver'
    BY <1>4, <2>1 DEF Wires, IInv, ClosingIsOver
  <2> QED BY <1>0, <2>2, <2>3, <2>4, <2>5 DEF IInv
<1>5. CASE Refuses
  <2>1. /\ UNCHANGED <<browser, screen, taken, exec, written, pipe, stream,
                       read, paused, unsent, ending, stdin>>
        /\ route' = "refused" /\ stream = "none"
        /\ sock' # "closed" => sock # "closed"
    BY <1>5 DEF Refuses, client, process, pipe, bridge, IInv, Attaching
  <2>2. Attaching' /\ ClosingIsOver'
    BY <2>1 DEF IInv, Attaching, ClosingIsOver
  <2>3. OneFrameAtATime' /\ Shown' /\ EndedIsRead'
    BY <2>1, OutputStays
  <2> QED BY <1>0, <2>1, <2>2, <2>3 DEF IInv
<1>6. CASE TakesFrame
  <2>1. /\ UNCHANGED <<browser, screen, sock, held, exec, written, pipe,
                       stream, read, paused, unsent, ending, route>>
        /\ taken' = taken + 1
        /\ route # "attaching"
    BY <1>6 DEF TakesFrame, client, process, pipe, bridge, IInv, Attaching
  <2>2. Attaching' /\ ClosingIsOver'
    BY <2>1 DEF IInv, Attaching, ClosingIsOver
  <2>3. OneFrameAtATime' /\ Shown' /\ EndedIsRead'
    BY <2>1, OutputStays
  <2>4. ASSUME stream = "open" PROVE KeysInOrder'
    <3>1. KeysInOrder /\ route = "wired"
      BY <2>4 DEF IInv, Attaching
    <3>2. taken \in Nat /\ stdin \in Seq(1 .. MaxFrames)
      BY <1>0 DEF TypeOK
    <3>3. CASE ~IsKey(taken + 1)
      <4>1. stdin' = stdin
        BY <1>6, <3>3 DEF TakesFrame
      <4>2. {n \in 1 .. taken' : IsKey(n)} = {n \in 1 .. taken : IsKey(n)}
        BY <2>1, <3>2, <3>3
      <4> QED BY <3>1, <4>1, <4>2 DEF KeysInOrder
    <3>4. CASE IsKey(taken + 1)
      <4>1. stdin' = Append(stdin, taken + 1)
        BY <1>6, <2>4, <3>1, <3>4 DEF TakesFrame
      <4>2. {n \in 1 .. taken' : IsKey(n)} =
              {n \in 1 .. taken : IsKey(n)} \cup {taken + 1}
        BY <2>1, <3>2, <3>4
      <4>3. /\ DOMAIN stdin = 1 .. Len(stdin) /\ Len(stdin) \in Nat
            /\ DOMAIN stdin' = 1 .. (Len(stdin) + 1)
            /\ \A i \in 1 .. Len(stdin) : stdin'[i] = stdin[i]
            /\ stdin'[Len(stdin) + 1] = taken + 1
        BY <3>2, <4>1
      <4>4. {stdin'[i] : i \in DOMAIN stdin'} =
              {stdin[i] : i \in DOMAIN stdin} \cup {taken + 1}
        BY <4>3
      <4>5. \A i \in DOMAIN stdin : stdin[i] \in 1 .. taken
        BY <3>1 DEF KeysInOrder
      <4>6. \A i, j \in DOMAIN stdin' : i < j => stdin'[i] < stdin'[j]
        BY <3>1, <3>2, <4>3, <4>5 DEF KeysInOrder
      <4> QED BY <3>1, <4>2, <4>4, <4>6 DEF KeysInOrder
    <3> QED BY <3>3, <3>4
  <2> QED BY <1>0, <2>1, <2>2, <2>3, <2>4 DEF IInv
<1>7. CASE ReadsChunk
  <2>1. /\ UNCHANGED <<browser, screen, sock, held, taken, exec, written,
                       stream, ending, route, stdin>>
        /\ stream = "open" /\ ~paused /\ read' = read + 1
    BY <1>7 DEF ReadsChunk, client, socket, process, bridge
  <2>2. Attaching' /\ ClosingIsOver' /\ EndedIsRead'
    BY <2>1 DEF IInv, Attaching, ClosingIsOver, EndedIsRead
  <2>3. KeysInOrder'
    BY <2>1, KeysStay DEF IInv
  <2>4. unsent = <<>>
    BY <2>1 DEF IInv, OneFrameAtATime
  <2>5. CASE sock = "open"
    <3>1. unsent' = <<read + 1>> /\ paused'
      BY <1>7, <2>4, <2>5 DEF ReadsChunk
    <3>2. OneFrameAtATime'
      BY <3>1 DEF OneFrameAtATime
    <3>3. Shown'
      BY <1>0, <2>1, <2>4, <3>1
      DEF IInv, Shown, ShownInOrder, UpTo, TypeOK
    <3> QED BY <1>0, <2>1, <2>2, <2>3, <3>2, <3>3 DEF IInv
  <2>6. CASE sock # "open"
    <3>1. UNCHANGED <<unsent, paused>>
      BY <1>7, <2>6 DEF ReadsChunk
    <3>2. sock' = "closed"
      BY <1>0, <2>1, <2>6 DEF IInv, ClosingIsOver, TypeOK
    <3>3. OneFrameAtATime' /\ Shown'
      BY <3>1, <3>2 DEF IInv, OneFrameAtATime, Shown
    <3> QED BY <1>0, <2>1, <2>2, <2>3, <3>3 DEF IInv
  <2> QED BY <2>5, <2>6
<1>8. CASE GoesOut
  <2>1. /\ UNCHANGED <<browser, sock, held, taken, exec, written, stream, read,
                       ending, route, stdin>>
        /\ unsent # <<>> /\ ~paused'
    BY <1>8 DEF GoesOut, socket, process, bridge
  <2>2. /\ Tail(unsent) = <<>> /\ unsent = <<Head(unsent)>>
        /\ unsent' = <<>>
    BY <1>0, <1>8, OneGoesOut DEF GoesOut, IInv, OneFrameAtATime, TypeOK
  <2>3. Attaching' /\ ClosingIsOver' /\ EndedIsRead'
    BY <2>1, <2>2 DEF IInv, Attaching, ClosingIsOver, EndedIsRead
  <2>4. stream' = "open" => KeysInOrder'
    BY <2>1, KeysStay DEF IInv
  <2>5. OneFrameAtATime'
    BY <2>2 DEF OneFrameAtATime
  <2>6. Shown'
    <3> SUFFICES ASSUME browser = "there", sock # "closed",
                        stream \in {"none", "open", "ended"}
                 PROVE  ShownInOrder'
      BY <2>1 DEF Shown
    <3>1. /\ read > 0 /\ Head(unsent) = read
          /\ screen = UpTo(read - 1)
      BY <2>1, <2>2 DEF IInv, Shown, ShownInOrder
    <3>2. screen' = Append(UpTo(read - 1), read)
      BY <1>8, <3>1 DEF GoesOut
    <3>3. screen' = UpTo(read)
      <4>1. read \in Nat
        BY <1>0 DEF TypeOK
      <4> QED BY <4>1, <3>1, <3>2, UpToGrows
    <3> QED BY <2>1, <2>2, <3>3 DEF ShownInOrder, UpTo
  <2> QED BY <1>0, <2>3, <2>4, <2>5, <2>6 DEF IInv
<1>9. CASE SendFails
  <2>1. /\ UNCHANGED <<browser, screen, sock, held, taken, exec, written,
                       stream, read, ending, route, stdin>>
        /\ unsent' = <<>> /\ sock' = "closed"
    BY <1>9 DEF SendFails, client, socket, process, bridge
  <2>2. Attaching' /\ ClosingIsOver' /\ EndedIsRead' /\ Shown'
    BY <2>1 DEF IInv, Attaching, ClosingIsOver, EndedIsRead, Shown
  <2>3. stream' = "open" => KeysInOrder'
    BY <2>1, KeysStay DEF IInv
  <2>4. OneFrameAtATime'
    BY <2>1 DEF OneFrameAtATime
  <2> QED BY <1>0, <2>2, <2>3, <2>4 DEF IInv
<1>10. CASE ExecWrites \/ SessionEnds \/ Detaches
  <2>1. /\ UNCHANGED <<browser, screen, sock, held, taken, stream, read,
                       paused, unsent, ending, route, stdin>>
        /\ exec = "running"
    BY <1>10 DEF ExecWrites, SessionEnds, Detaches, client, socket, pipe,
       bridge
  <2>2. Attaching' /\ ClosingIsOver' /\ EndedIsRead' /\ OneFrameAtATime'
    BY <2>1 DEF IInv, Attaching, ClosingIsOver, EndedIsRead, OneFrameAtATime
  <2>3. stream' = "open" => KeysInOrder'
    BY <2>1, KeysStay DEF IInv
  <2>4. Shown'
    BY <2>1 DEF IInv, Shown, ShownInOrder, UpTo
  <2> QED BY <1>0, <2>2, <2>3, <2>4 DEF IInv
<1>11. CASE StreamEnds
  <2>1. /\ UNCHANGED <<browser, screen, sock, held, taken, exec, written, read,
                       paused, unsent, route, stdin>>
        /\ stream = "open" /\ stream' = "ended"
        /\ exec = "ended" /\ ~paused /\ read = written
    BY <1>11 DEF StreamEnds, client, socket, process
  <2>2. Attaching' /\ ClosingIsOver' /\ EndedIsRead' /\ OneFrameAtATime'
    BY <2>1 DEF IInv, Attaching, ClosingIsOver, EndedIsRead, OneFrameAtATime
  <2>3. Shown'
    BY <2>1 DEF IInv, Shown, ShownInOrder, UpTo
  <2> QED BY <1>0, <2>1, <2>2, <2>3 DEF IInv
<1>12. CASE StreamBreaks \/ Backstop
  <2>1. /\ UNCHANGED <<browser, screen, sock, held, taken, exec, written, read,
                       paused, unsent, route, stdin>>
        /\ stream = "open" /\ stream' \in {"broken", "destroyed"}
    BY <1>12 DEF StreamBreaks, Backstop, client, socket, process
  <2>2. Attaching' /\ ClosingIsOver' /\ EndedIsRead' /\ OneFrameAtATime'
    BY <2>1 DEF IInv, Attaching, ClosingIsOver, EndedIsRead, OneFrameAtATime
  <2>3. Shown'
    BY <2>1, GoneIsShown
  <2> QED BY <1>0, <2>1, <2>2, <2>3 DEF IInv
<1>13. CASE ExitKnown
  <2>1. /\ UNCHANGED <<browser, screen, held, taken, exec, written, pipe,
                       stream, read, paused, unsent, route, stdin>>
        /\ stream \in {"ended", "broken", "destroyed"}
        /\ sock' # "closed" => sock # "closed"
    BY <1>13 DEF ExitKnown, client, process, pipe, IInv, ClosingIsOver
  <2>2. Attaching' /\ ClosingIsOver'
    BY <2>1 DEF IInv, Attaching, ClosingIsOver
  <2>3. OneFrameAtATime' /\ Shown' /\ EndedIsRead'
    BY <2>1, OutputStays
  <2> QED BY <1>0, <2>1, <2>2, <2>3 DEF IInv
<1>14. CASE UNCHANGED vars
  <2>1. /\ UNCHANGED <<browser, screen, sock, held, taken, exec, written, pipe,
                       stream, read, paused, unsent, ending, route, stdin>>
    BY <1>14 DEF vars, client, socket, process, pipe, bridge
  <2>2. Attaching' /\ ClosingIsOver'
    BY <2>1 DEF IInv, Attaching, ClosingIsOver
  <2>3. stream' = "open" => KeysInOrder'
    BY <2>1, KeysStay DEF IInv
  <2>4. OneFrameAtATime' /\ Shown' /\ EndedIsRead'
    BY <2>1, OutputStays
  <2> QED BY <1>0, <2>2, <2>3, <2>4 DEF IInv
<1> QED
  BY <1>1, <1>2, <1>3, <1>4, <1>5, <1>6, <1>7, <1>8, <1>9, <1>10, <1>11,
     <1>12, <1>13, <1>14
  DEF Next, Attach, Closing, Output, Ends, Heartbeat

\* The upgrade is complete, nothing else has happened.
LEMMA IInvInit == Init => IInv
<1> SUFFICES ASSUME Init PROVE IInv
  OBVIOUS
<1>1. TypeOK
  <2>1. /\ <<>> \in Seq(1 .. MaxChunks)
        /\ <<>> \in Seq(1 .. MaxFrames)
    BY EmptySeq
  <2>2. 0 \in 0 .. MaxFrames /\ 0 \in 0 .. MaxChunks /\ 0 \in 0 .. 0
    BY BoundsAreNaturals
  <2> QED BY <2>1, <2>2 DEF Init, TypeOK
<1>2. Attaching /\ OneFrameAtATime /\ EndedIsRead /\ ClosingIsOver
  BY DEF Init, Attaching, OneFrameAtATime, EndedIsRead, ClosingIsOver
<1>3. Shown
  BY DEF Init, Shown, ShownInOrder, UpTo
<1> QED BY <1>1, <1>2, <1>3 DEF Init, IInv

-----------------------------------------------------------------------------
(* Theorems.                                                               *)

\* The invariant holds of every behaviour.
THEOREM Invariance == Spec => []IInv
BY IInvInit, IInvStep, PTL DEF Spec

\* The bridge and both its sides keep their types.
THEOREM TypeCorrect == Spec => []TypeOK
<1>1. IInv => TypeOK
  BY DEF IInv
<1> QED BY <1>1, Invariance, PTL

\* Every key the server took reached the exec, in order, for as many frames
\* as one likes.
THEOREM KeysArrive == Spec => []NoKeyIsLost
<1>1. IInv => NoKeyIsLost
  BY DEF IInv, KeysInOrder, NoKeyIsLost
<1> QED BY <1>1, Invariance, PTL

\* The server holds one frame of output, and pauses the stream for it.
THEOREM Backpressure == Spec => []OneFrameAtATime
<1>1. IInv => OneFrameAtATime
  BY DEF IInv
<1> QED BY <1>1, Invariance, PTL

\* What a session wrote before it ended is shown before its socket closes.
THEOREM ShownToTheEnd == Spec => []SeenToTheEnd
<1>1. IInv => SeenToTheEnd
  BY DEF IInv, Shown, ShownInOrder, EndedIsRead, SeenToTheEnd
<1> QED BY <1>1, Invariance, PTL
=============================================================================
