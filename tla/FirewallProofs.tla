--------------------------- MODULE FirewallProofs ---------------------------
(***************************************************************************)
(* Firewall.tla for every set of names, addresses and whitelists: the      *)
(* types, and that neither Claude nor the state file ever outruns the      *)
(* filter.                                                                 *)
(***************************************************************************)
EXTENDS Firewall, TLAPS

Working == {"chain", "create", "resolve", "rules", "probe"}

\* Who may be running the script, and what it has found done by each step.
RunFits ==
  /\ phase \in {"down", "boot"} => run.step = "idle" /\ ~claude /\ loop = {}
  /\ phase = "boot" => ~file.fresh
  /\ phase = "firewall" =>
       run.by = "entrypoint" /\ run.step # "idle" /\ loop = {} /\ ~claude
  /\ run.step # "idle" /\ run.by = "entrypoint" =>
       phase = "firewall" /\ run.names = Whitelist
  /\ run.step \in Working => file.token = "configuring" /\ file.fresh
  /\ run.step \in Working \ {"chain"} => "chain" \in net

\* What the entrypoint's run has put into the set is the whitelist's.
SetFits ==
  run.by = "entrypoint" /\ run.step \in {"resolve", "rules", "probe"} =>
    allow \subseteq Served(Whitelist)

\* The probe has seen the filter closed, or has missed that it is not.
Probed == missed \/ (~Hole /\ ~LeavesOnSix)

\* Behind Claude there is a filter that no run passes the sentinel of, and a
\* loop that resolves only the whitelist.
ClaudeFits ==
  claude /\ box.enforce =>
    /\ "chain" \in net /\ Probed
    /\ allow \subseteq Served(Whitelist)
    /\ loop \subseteq Whitelist
    /\ file.token = "active" /\ file.fresh

\* The state file and the tables it tells of.
FileFits ==
  file.fresh =>
    /\ file.token = "active" => "chain" \in net /\ Probed
    /\ file.token = "failed" => "drop" \in net

IInv == TypeOK /\ RunFits /\ SetFits /\ ClaudeFits /\ FileFits

LEMMA ServedGrows ==
  ASSUME NEW A, NEW B, A \subseteq B
  PROVE  Served(A) \subseteq Served(B)
BY DEF Served

LEMMA ServedType ==
  ASSUME NEW A \in SUBSET Names
  PROVE  Served(A) \subseteq Addresses
BY FirewallAssumption DEF Served

\* The records a step puts in place whole.
LEMMA IdleType == Idle \in RunType
BY DEF Idle, RunType, Steps, Callers

LEMMA GuardsType ==
  ASSUME NEW by \in Callers, NEW names \in SUBSET Names
  PROVE  [step |-> "guards", by |-> by, names |-> names] \in RunType
BY DEF RunType, Steps

LEMMA StepType ==
  ASSUME NEW r \in RunType, NEW step \in Steps
  PROVE  [r EXCEPT !.step = step] \in RunType
BY DEF RunType

\* Whatever of the calls took effect.
LEMMA NetTypes ==
  ASSUME net \in SUBSET Rules
  PROVE  /\ net \cup {"chain"} \in SUBSET Rules
         /\ \A done \in SUBSET Calls : net \cup done \in SUBSET Rules
         /\ \A n \in Sealings : n \in SUBSET Rules /\ net \ {"jump"} \subseteq n
BY DEF Rules, Calls, Sealings

LEMMA FileTypes ==
  /\ \A f \in FileType : [f EXCEPT !.fresh = FALSE] \in FileType
  /\ \A token \in Tokens : [token |-> token, fresh |-> TRUE] \in FileType
BY DEF FileType

\* What the probe has seen stays, with the tables.
LEMMA ProbedStays ==
  ASSUME UNCHANGED <<box, net, missed>>
  PROVE  Probed' <=> Probed
BY DEF Probed, Hole, LeavesOnSix

\* What the probe of example.com did not miss is closed.
LEMMA SucceedsProbes ==
  ASSUME Succeeds
  PROVE  Probed'
BY DEF Succeeds, Probed, Leaves, Hole, LeavesOnSix

\* What the trap leaves: a jump less or a policy more, and a file that says
\* "failed" only if the policy was listed.
LEMMA TrappedTypes ==
  ASSUME TypeOK, Trapped
  PROVE  /\ net' \in SUBSET Rules
         /\ net \ {"jump"} \subseteq net'
         /\ file' \in FileType /\ file'.fresh
         /\ file'.token = "failed" => "drop" \in net'
         /\ file'.token \in {"failed", "unfiltered"}
         /\ run' = Idle
         /\ phase' = IF run.by = "entrypoint" THEN "session" ELSE phase
         /\ run.by = "entrypoint" => claude' = FALSE
         /\ run.by # "entrypoint" => claude' = claude
<1>1. PICK n \in Sealings, sealed \in BOOLEAN :
         /\ sealed => Listed(n)
         /\ net' = n
         /\ Writes(IF sealed THEN "failed" ELSE "unfiltered")
  BY DEF Trapped
<1>2. net' \in SUBSET Rules /\ net \ {"jump"} \subseteq net'
  BY <1>1, NetTypes DEF TypeOK
<1>3. CASE sealed
  <2>1. file' = [token |-> "failed", fresh |-> TRUE]
    BY <1>1, <1>3 DEF Writes
  <2>2. "drop" \in net'
    BY <1>1, <1>3 DEF Listed
  <2>3. QED
    BY <1>2, <2>1, <2>2, FileTypes DEF Trapped, Exits, Tokens
<1>4. CASE ~sealed
  <2>1. file' = [token |-> "unfiltered", fresh |-> TRUE]
    BY <1>1, <1>4 DEF Writes
  <2>2. QED
    BY <1>2, <2>1, FileTypes DEF Trapped, Exits, Tokens
<1>5. QED BY <1>3, <1>4

LEMMA NamesType ==
  ASSUME NEW r \in RunType
  PROVE  r.names \in SUBSET Names
BY DEF RunType

\* A run that fails past the trap, whatever it has put into the set.
LEMMA TrappedIInv ==
  ASSUME IInv, Trapped, run.step \in Working, allow' \in SUBSET Addresses,
         UNCHANGED <<box, loop, missed>>
  PROVE  IInv'
<1>1. run' = Idle /\ Idle.step = "idle" /\ Idle.by = "entrypoint"
  BY TrappedTypes DEF IInv, Idle
<1>2. TypeOK'
  <2>1. phase' \in {"down", "boot", "firewall", "session"}
    BY TrappedTypes DEF IInv, TypeOK
  <2>2. claude' \in BOOLEAN
    BY TrappedTypes DEF IInv, TypeOK
  <2>3. QED BY <2>1, <2>2, TrappedTypes, IdleType DEF IInv, TypeOK
<1>3. phase \in {"firewall", "session"} /\ phase' = "session"
  BY TrappedTypes DEF IInv, TypeOK, RunFits, RunType, Callers, Working
<1>4. RunFits'
  BY <1>1, <1>3 DEF RunFits, Working
<1>5. SetFits'
  BY <1>1 DEF SetFits
<1>6. ~(claude' /\ box'.enforce)
  BY TrappedTypes DEF IInv, RunFits, ClaudeFits
<1>7. ClaudeFits'
  BY <1>6 DEF ClaudeFits
<1>8. FileFits'
  BY TrappedTypes DEF IInv, FileFits
<1>9. QED BY <1>2, <1>4, <1>5, <1>7, <1>8 DEF IInv

LEMMA InitIInv == Init => IInv
<1> SUFFICES ASSUME Init PROVE IInv OBVIOUS
<1>1. TypeOK
  <2>2. [token |-> "none", fresh |-> FALSE] \in FileType BY DEF FileType, Tokens
  <2>3. QED BY <2>2, IdleType DEF Init, TypeOK
<1>2. QED
  BY <1>1 DEF Init, IInv, RunFits, SetFits, ClaudeFits, FileFits, Idle,
     Working

LEMMA NextIInv == IInv /\ [Next]_vars => IInv'
<1> SUFFICES ASSUME IInv, [Next]_vars PROVE IInv' OBVIOUS
<1>1. CASE Starts
  <2>1. TypeOK'
    BY <1>1, NetTypes, FileTypes DEF IInv, TypeOK, Starts
  <2>2. RunFits'
    BY <1>1 DEF IInv, TypeOK, RunType, FileType, RunFits, Working,
      Starts
  <2>3. SetFits'
    BY <1>1 DEF IInv, TypeOK, RunType, FileType, RunFits, SetFits,
      Starts
  <2>4. ClaudeFits'
    BY <1>1 DEF IInv, TypeOK, RunType, FileType, RunFits, SetFits,
      ClaudeFits, Working, Starts
  <2>5. FileFits'
    BY <1>1 DEF IInv, TypeOK, RunType, FileType, RunFits, FileFits,
      Working, Starts
  <2>6. QED BY <2>1, <2>2, <2>3, <2>4, <2>5 DEF IInv
<1>2. CASE SetsUp
  <2>1. TypeOK'
    BY <1>2, GuardsType, FirewallAssumption DEF IInv, TypeOK, SetsUp, Callers
  <2>2. RunFits'
    BY <1>2 DEF IInv, TypeOK, RunType, FileType, RunFits, Working,
      SetsUp
  <2>3. SetFits'
    BY <1>2 DEF IInv, TypeOK, RunType, FileType, RunFits, SetFits,
      SetsUp
  <2>4. ClaudeFits'
    BY <1>2, ProbedStays DEF IInv, TypeOK, RunType, FileType, RunFits, SetFits,
      ClaudeFits, Working, SetsUp
  <2>5. FileFits'
    BY <1>2, ProbedStays DEF IInv, TypeOK, RunType, FileType, RunFits, FileFits,
      Working, SetsUp
  <2>6. QED BY <2>1, <2>2, <2>3, <2>4, <2>5 DEF IInv
<1>3. CASE RunsAgain
  <2>1. TypeOK'
    BY <1>3, GuardsType, FirewallAssumption DEF IInv, TypeOK, RunsAgain, Callers
  <2>2. RunFits'
    BY <1>3 DEF IInv, TypeOK, RunType, FileType, RunFits, Working,
      RunsAgain
  <2>3. SetFits'
    BY <1>3 DEF IInv, TypeOK, RunType, FileType, RunFits, SetFits,
      RunsAgain
  <2>4. ClaudeFits'
    BY <1>3, ProbedStays DEF IInv, TypeOK, RunType, FileType, RunFits, SetFits,
      ClaudeFits, Working, RunsAgain
  <2>5. FileFits'
    BY <1>3, ProbedStays DEF IInv, TypeOK, RunType, FileType, RunFits, FileFits,
      Working, RunsAgain
  <2>6. QED BY <2>1, <2>2, <2>3, <2>4, <2>5 DEF IInv
<1>4. CASE Killed
  <2>1. TypeOK'
    BY <1>4, IdleType DEF IInv, TypeOK, Killed, Exits
  <2>2. RunFits'
    BY <1>4 DEF IInv, TypeOK, RunType, FileType, RunFits, Working,
      Killed, Exits, Idle
  <2>3. SetFits'
    BY <1>4 DEF IInv, TypeOK, RunType, FileType, RunFits, SetFits,
      Killed, Exits, Idle
  <2>4. ClaudeFits'
    BY <1>4, ProbedStays DEF IInv, TypeOK, RunType, FileType, RunFits, SetFits,
      ClaudeFits, Working, Killed, Exits, Idle
  <2>5. FileFits'
    BY <1>4, ProbedStays DEF IInv, TypeOK, RunType, FileType, RunFits, FileFits,
      Working, Killed, Exits, Idle
  <2>6. QED BY <2>1, <2>2, <2>3, <2>4, <2>5 DEF IInv
<1>5. CASE Stops
  <2>1. TypeOK'
    BY <1>5, IdleType DEF IInv, TypeOK, Stops
  <2>2. RunFits'
    BY <1>5 DEF IInv, TypeOK, RunType, FileType, RunFits, Working,
      Stops, Idle
  <2>3. SetFits'
    BY <1>5 DEF IInv, TypeOK, RunType, FileType, RunFits, SetFits,
      Stops, Idle
  <2>4. ClaudeFits'
    BY <1>5, ProbedStays DEF IInv, TypeOK, RunType, FileType, RunFits, SetFits,
      ClaudeFits, Working, Stops, Idle
  <2>5. FileFits'
    BY <1>5, ProbedStays DEF IInv, TypeOK, RunType, FileType, RunFits, FileFits,
      Working, Stops, Idle
  <2>6. QED BY <2>1, <2>2, <2>3, <2>4, <2>5 DEF IInv
<1>6. CASE Refused
  <2>1. TypeOK'
    BY <1>6, IdleType DEF IInv, TypeOK, Refused, Exits
  <2>2. RunFits'
    BY <1>6 DEF IInv, TypeOK, RunType, FileType, RunFits, Working,
      Refused, Exits, Idle
  <2>3. SetFits'
    BY <1>6 DEF IInv, TypeOK, RunType, FileType, RunFits, SetFits,
      Refused, Exits, Idle
  <2>4. ClaudeFits'
    BY <1>6, ProbedStays DEF IInv, TypeOK, RunType, FileType, RunFits, SetFits,
      ClaudeFits, Working, Refused, Exits, Idle
  <2>5. FileFits'
    BY <1>6, ProbedStays DEF IInv, TypeOK, RunType, FileType, RunFits, FileFits,
      Working, Refused, Exits, Idle
  <2>6. QED BY <2>1, <2>2, <2>3, <2>4, <2>5 DEF IInv
<1>7. CASE Begins
  <2>1. TypeOK'
    BY <1>7, StepType, FileTypes DEF IInv, TypeOK, Begins, Writes, Continues,
      Steps, Tokens
  <2>2. RunFits'
    BY <1>7 DEF IInv, TypeOK, RunType, FileType, RunFits, Working,
      Begins, Writes, Continues, Configured
  <2>3. SetFits'
    BY <1>7 DEF IInv, TypeOK, RunType, FileType, RunFits, SetFits,
      Begins, Writes, Continues, Configured
  <2>4. ClaudeFits'
    BY <1>7, ProbedStays DEF IInv, TypeOK, RunType, FileType, RunFits, SetFits,
      ClaudeFits, Working, Begins, Writes, Continues, Configured
  <2>5. FileFits'
    BY <1>7, ProbedStays DEF IInv, TypeOK, RunType, FileType, RunFits, FileFits,
      Working, Begins, Writes, Continues, Configured
  <2>6. QED BY <2>1, <2>2, <2>3, <2>4, <2>5 DEF IInv
<1>8. CASE MakesChain
  <2>1. CASE Trapped
    BY <1>8, <2>1, TrappedIInv DEF MakesChain, Fails, Working, IInv, TypeOK
  <2>2. CASE ~Trapped
    <3>1. TypeOK'
      <4>1. run' \in RunType
        BY <1>8, <2>2, StepType DEF IInv, TypeOK, MakesChain, Fails, Continues,
          Steps
      <4>2. net' \in SUBSET Rules
        BY <1>8, <2>2, NetTypes DEF IInv, TypeOK, MakesChain, Fails
      <4>3. allow' \in SUBSET Addresses
        BY <1>8, <2>2 DEF IInv, TypeOK, MakesChain, Fails
      <4>4. QED
        BY <1>8, <2>2, <4>1, <4>2, <4>3 DEF IInv, TypeOK, MakesChain, Fails
    <3>2. RunFits'
      BY <1>8, <2>2 DEF IInv, TypeOK, RunType, RunFits, Working, MakesChain,
        Fails, Continues
    <3>3. SetFits'
      BY <1>8, <2>2 DEF IInv, TypeOK, RunType, RunFits, SetFits, Working,
        MakesChain, Fails, Continues
    <3>4. file' = file /\ file.token = "configuring"
      BY <1>8, <2>2 DEF IInv, RunFits, Working, MakesChain, Fails
    <3>5. ClaudeFits'
      BY <1>8, <2>2, <3>4 DEF IInv, ClaudeFits, MakesChain, Fails
    <3>6. FileFits'
      BY <3>4 DEF FileFits
    <3>7. QED BY <3>1, <3>2, <3>3, <3>5, <3>6 DEF IInv
  <2>3. QED BY <2>1, <2>2
<1>9. CASE MakesSet
  <2>1. CASE Trapped
    BY <1>9, <2>1, TrappedIInv DEF MakesSet, Fails, Working, IInv, TypeOK
  <2>2. CASE ~Trapped
    <3>1. TypeOK'
      <4>1. run' \in RunType
        BY <1>9, <2>2, StepType DEF IInv, TypeOK, MakesSet, Fails, Continues,
          Steps
      <4>2. net' \in SUBSET Rules
        BY <1>9, <2>2 DEF IInv, TypeOK, MakesSet, Fails
      <4>3. allow' \in SUBSET Addresses
        BY <1>9, <2>2 DEF IInv, TypeOK, MakesSet, Fails
      <4>4. QED
        BY <1>9, <2>2, <4>1, <4>2, <4>3 DEF IInv, TypeOK, MakesSet, Fails
    <3>2. RunFits'
      BY <1>9, <2>2 DEF IInv, TypeOK, RunType, RunFits, Working, MakesSet,
        Fails, Continues
    <3>3. SetFits'
      BY <1>9, <2>2 DEF IInv, TypeOK, RunType, RunFits, SetFits, Working,
        MakesSet, Fails, Continues
    <3>4. file' = file /\ file.token = "configuring"
      BY <1>9, <2>2 DEF IInv, RunFits, Working, MakesSet, Fails
    <3>5. ClaudeFits'
      BY <1>9, <2>2, <3>4 DEF IInv, ClaudeFits, MakesSet, Fails
    <3>6. FileFits'
      BY <3>4 DEF FileFits
    <3>7. QED BY <3>1, <3>2, <3>3, <3>5, <3>6 DEF IInv
  <2>3. QED BY <2>1, <2>2
<1>10. CASE Resolves
  <2>1. CASE Trapped
    BY <1>10, <2>1, TrappedIInv, ServedType, NamesType
    DEF Resolves, Fails, Working, IInv, TypeOK, Found
  <2>2. CASE ~Trapped
    <3>1. TypeOK'
      <4>1. run' \in RunType
        BY <1>10, <2>2, StepType DEF IInv, TypeOK, Resolves, Fails, Continues,
          Steps
      <4>2. net' \in SUBSET Rules
        BY <1>10, <2>2 DEF IInv, TypeOK, Resolves, Fails
      <4>3. allow' \in SUBSET Addresses
        BY <1>10, <2>2, ServedType, NamesType
        DEF IInv, TypeOK, Resolves, Fails, Found
      <4>4. QED
        BY <1>10, <2>2, <4>1, <4>2, <4>3 DEF IInv, TypeOK, Resolves, Fails
    <3>2. RunFits'
      BY <1>10, <2>2 DEF IInv, TypeOK, RunType, RunFits, Working, Resolves,
        Fails, Continues
    <3>3. SetFits'
      BY <1>10, <2>2 DEF IInv, TypeOK, RunType, RunFits, SetFits, Working,
        Resolves, Fails, Continues, Found
    <3>4. file' = file /\ file.token = "configuring"
      BY <1>10, <2>2 DEF IInv, RunFits, Working, Resolves, Fails
    <3>5. ClaudeFits'
      BY <1>10, <2>2, <3>4 DEF IInv, ClaudeFits, Resolves, Fails
    <3>6. FileFits'
      BY <3>4 DEF FileFits
    <3>7. QED BY <3>1, <3>2, <3>3, <3>5, <3>6 DEF IInv
  <2>3. QED BY <2>1, <2>2
<1>11. CASE Installs
  <2>1. TypeOK'
    BY <1>11, StepType, NetTypes DEF IInv, TypeOK, Installs, Continues, Steps
  <2>2. RunFits'
    BY <1>11 DEF IInv, TypeOK, RunType, FileType, RunFits, Working,
      Installs, Continues
  <2>3. SetFits'
    BY <1>11 DEF IInv, TypeOK, RunType, FileType, RunFits, SetFits,
      Installs, Continues
  <2>4. ClaudeFits'
    BY <1>11 DEF IInv, TypeOK, RunType, FileType, RunFits, SetFits,
      ClaudeFits, Working, Installs, Continues
  <2>5. FileFits'
    BY <1>11 DEF IInv, TypeOK, RunType, FileType, RunFits, FileFits,
      Working, Installs, Continues
  <2>6. QED BY <2>1, <2>2, <2>3, <2>4, <2>5 DEF IInv
<1>12. CASE Succeeds
  <2>1. TypeOK'
    BY <1>12, FileTypes, IdleType, NamesType DEF IInv, TypeOK, Succeeds, Writes,
      Exits, Tokens
  <2>2. RunFits'
    BY <1>12 DEF IInv, TypeOK, RunType, FileType, RunFits, Working,
      Succeeds, Writes, Exits, Idle
  <2>3. SetFits'
    BY <1>12 DEF IInv, TypeOK, RunType, FileType, RunFits, SetFits,
      Succeeds, Writes, Exits, Idle
  <2>4. ClaudeFits'
    BY <1>12, SucceedsProbes, ZenonT(40)
    DEF IInv, TypeOK, RunType, FileType, RunFits, SetFits,
      ClaudeFits, Working, Succeeds, Writes, Exits, Idle
  <2>5. FileFits'
    BY <1>12, SucceedsProbes
    DEF IInv, TypeOK, RunType, FileType, RunFits, FileFits,
      Working, Succeeds, Writes, Exits, Idle
  <2>6. QED BY <2>1, <2>2, <2>3, <2>4, <2>5 DEF IInv
<1>13. CASE ProbeFails
  BY <1>13, TrappedIInv DEF ProbeFails, Fails, Working, IInv, TypeOK
<1>14. CASE Refreshes
  <2>1. TypeOK'
    BY <1>14, ServedType DEF IInv, TypeOK, Refreshes, Found
  <2>2. RunFits'
    BY <1>14, ServedGrows, ServedType DEF IInv, TypeOK, RunType,
      FileType, RunFits, Working, Refreshes, Found
  <2>3. SetFits'
    BY <1>14, ServedGrows, ServedType DEF IInv, TypeOK, RunType,
      FileType, RunFits, SetFits, Refreshes, Found
  <2>4. ClaudeFits'
    BY <1>14, ProbedStays, ServedGrows, ServedType DEF IInv, TypeOK, RunType,
      FileType, RunFits, SetFits, ClaudeFits, Working, Refreshes, Found
  <2>5. FileFits'
    BY <1>14, ProbedStays, ServedGrows, ServedType DEF IInv, TypeOK, RunType,
      FileType, RunFits, FileFits, Working, Refreshes, Found
  <2>6. QED BY <2>1, <2>2, <2>3, <2>4, <2>5 DEF IInv
<1>15. CASE UNCHANGED vars
  <2>1. TypeOK'
    BY <1>15 DEF IInv, TypeOK, vars
  <2>2. RunFits'
    BY <1>15 DEF IInv, TypeOK, RunType, FileType, RunFits, Working,
      vars
  <2>3. SetFits'
    BY <1>15 DEF IInv, TypeOK, RunType, FileType, RunFits, SetFits,
      vars
  <2>4. ClaudeFits'
    BY <1>15, ProbedStays DEF IInv, TypeOK, RunType, FileType, RunFits, SetFits,
      ClaudeFits, Working, vars
  <2>5. FileFits'
    BY <1>15, ProbedStays
    DEF IInv, TypeOK, RunType, FileType, RunFits, FileFits,
      Working, vars
  <2>6. QED BY <2>1, <2>2, <2>3, <2>4, <2>5 DEF IInv
<1>16. QED
  BY <1>1, <1>2, <1>3, <1>4, <1>5, <1>6, <1>7, <1>8, <1>9, <1>10, <1>11, <1>12,
     <1>13, <1>14, <1>15 DEF Next

\* The variables keep their types, whatever the whitelist and the answers.
THEOREM TypeCorrect == Spec => []TypeOK
<1>1. IInv => TypeOK BY DEF IInv
<1>2. QED BY <1>1, InitIInv, NextIInv, PTL DEF Spec

\* Where the firewall is enforced, Claude only ever runs behind an active filter
\* that lets through no more than the whitelist, for every whitelist.
THEOREM ClaudeStaysConfined == Spec => []ClaudeIsConfined
<1>1. IInv => ClaudeIsConfined
  BY DEF IInv, ClaudeFits, Probed, ClaudeIsConfined, Leaves
<1>2. QED BY <1>1, InitIInv, NextIInv, PTL DEF Spec

\* The state file never claims more than the tables hold.
THEOREM StateStaysTrue == Spec => []StateIsTrue
<1>1. IInv => StateIsTrue
  BY DEF IInv, FileFits, Probed, StateIsTrue, Leaves, Hole
<1>2. QED BY <1>1, InitIInv, NextIInv, PTL DEF Spec
=============================================================================
