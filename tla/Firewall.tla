------------------------------ MODULE Firewall ------------------------------
(***************************************************************************)
(* The egress firewall of an instance (src/docker/base/init-firewall.sh)   *)
(* and the part of the entrypoint that decides on its exit code whether    *)
(* Claude is started (src/docker/base/entrypoint.sh).  The script runs     *)
(* once per start of the container, as root; it may fail or be killed      *)
(* between any two steps; the agent may run it again with names of its     *)
(* own; a restart brings a new network namespace but keeps the state file. *)
(*                                                                         *)
(* A destination is an address, and a name is served by the addresses in   *)
(* Serves[n], of which a look-up finds some or none.  Loopback, the        *)
(* nameservers and the status port of the gateway leave under every        *)
(* filter and are not destinations here.                                   *)
(***************************************************************************)
EXTENDS Naturals

CONSTANTS Names,      \* domains: the whitelist's, and what an agent may add
          Addresses,  \* IPv4 destinations
          Serves,     \* Serves[n]: the addresses n ever resolves to
          Whitelist,  \* the names of firewall-allow.d, REPO_URL, FIREWALL_ALLOW
          Required,   \* api.anthropic.com
          GitHub,     \* the ranges of api.github.com/meta
          Example     \* the address of example.com

ASSUME FirewallAssumption ==
  /\ Serves \in [Names -> SUBSET Addresses]
  /\ Whitelist \subseteq Names
  /\ {Required, GitHub} \subseteq Whitelist
  /\ Example \in Addresses

VARIABLES box,    \* how the container was created, and what its kernel has
          phase,  \* "down", "boot", "firewall" or "session": how far PID 1 is
          run,    \* the run of the script: its step, caller and names
          net,    \* what stands in the filter tables of the network namespace
          allow,  \* the ipset claudops-allow
          loop,   \* the names the refresh loop resolves again, {} without one
          file,   \* the state file, and whether it was written since the start
          claude, \* whether Claude was started in the session
          missed  \* history: the probe found example.com closed for a reason
                  \* of its own, and the filter would have let it pass

vars == <<box, phase, run, net, allow, loop, file, claude, missed>>

Tokens == {"none", "configuring", "active", "failed", "unfiltered"}
Steps == {"idle", "guards", "chain", "create", "resolve", "rules", "probe"}
Callers == {"entrypoint", "agent"}

Idle == [step |-> "idle", by |-> "entrypoint", names |-> {}]

\* The chain, and what the calls behind it put in place: OUTPUT's jump into the
\* chain and its policy, the chain's ACCEPT of the set and its last REJECT, and
\* the two of ip6tables that matter.
Calls == {"jump", "set", "reject", "drop", "reject6", "drop6"}
Rules == {"chain"} \cup Calls

Boxes == [enforce : BOOLEAN, cap : BOOLEAN, tools : BOOLEAN, modules : BOOLEAN,
          six : BOOLEAN]
RunType == [step : Steps, by : Callers, names : SUBSET Names]
FileType == [token : Tokens, fresh : BOOLEAN]

TypeOK ==
  /\ box \in Boxes
  /\ phase \in {"down", "boot", "firewall", "session"}
  /\ run \in RunType
  /\ net \in SUBSET Rules
  /\ allow \in SUBSET Addresses
  /\ loop \in SUBSET Names
  /\ file \in FileType
  /\ claude \in BOOLEAN
  /\ missed \in BOOLEAN

Init ==
  /\ box \in Boxes
  /\ phase = "down"
  /\ run = Idle
  /\ net = {}
  /\ allow = {}
  /\ loop = {}
  /\ file = [token |-> "none", fresh |-> FALSE]
  /\ claude = FALSE
  /\ missed = FALSE

(***************************************************************************)
(* What leaves the container                                               *)
(***************************************************************************)

\* Two locks on one door: without the policy, the REJECT behind the jump.
Hole == "drop" \notin net /\ ~({"jump", "reject"} \subseteq net)
Leaves(a) == Hole \/ ({"jump", "set"} \subseteq net /\ a \in allow)
LeavesOnSix == box.six /\ {"drop6", "reject6"} \cap net = {}

Served(names) == UNION {Serves[n] : n \in names}
Answers(n) == \E a \in Serves[n] : Leaves(a)

(***************************************************************************)
(* The script                                                              *)
(***************************************************************************)

Writes(token) == file' = [token |-> token, fresh |-> TRUE]
Continues(step) == run' = [run EXCEPT !.step = step]

\* The exit code, as entrypoint.sh sees it: the session comes up either way, and
\* Claude only after exit 0.  A run of the agent's leaves the session alone.
Exits(ok) ==
  /\ run' = Idle
  /\ IF run.by = "entrypoint"
       THEN phase' = "session" /\ claude' = ok
       ELSE UNCHANGED <<phase, claude>>

\* seal(): the policy, and OUTPUT without its jump.  Without CAP_NET_ADMIN
\* neither happens, and with it either call may fail unnoticed; the chain, and
\* the tables of IPv6, stay as they are.
Sealings == IF box.cap
              THEN {n \in SUBSET (net \cup {"drop"}) :
                       net \ {"jump"} \subseteq n}
              ELSE {net}

\* Deviation: the calls are taken for done.
Assumed(n) == TRUE

\* The policy, as the listing shows it, if the listing works.
Listed(n) == "drop" \in n

\* The EXIT trap: seal, then write what seal() found.
Trapped ==
  /\ \E n \in Sealings, sealed \in BOOLEAN :
       /\ sealed => Listed(n)
       /\ net' = n
       /\ Writes(IF sealed THEN "failed" ELSE "unfiltered")
  /\ Exits(FALSE)
Fails == Trapped /\ UNCHANGED <<box, allow, loop, missed>>

\* The guards before the trap: whether this namespace was configured before,
\* and whether the tools are there.  Listing a chain needs CAP_NET_ADMIN too.
NeverConfigured == FALSE
Configured == "chain" \in net

Refused ==
  /\ run.step = "guards"
  /\ Configured \/ ~box.tools
  /\ Exits(FALSE)
  /\ UNCHANGED <<box, net, allow, loop, file, missed>>

Begins ==
  /\ run.step = "guards"
  /\ ~Configured /\ box.tools
  /\ Writes("configuring")
  /\ Continues("chain")
  /\ UNCHANGED <<box, phase, net, allow, loop, claude, missed>>

\* iptables -N
MakesChain ==
  /\ run.step = "chain"
  /\ \/ /\ box.cap /\ "chain" \notin net
        /\ net' = net \cup {"chain"}
        /\ Continues("create")
        /\ UNCHANGED <<box, phase, allow, loop, file, claude, missed>>
     \/ Fails

\* ipset destroy, ipset create
MakesSet ==
  /\ run.step = "create"
  /\ \/ /\ box.modules
        /\ allow' = {}
        /\ Continues("resolve")
        /\ UNCHANGED <<box, phase, net, loop, file, claude, missed>>
     \/ Fails

\* What one pass of look-ups finds: any of the addresses that serve the names.
Found(names) == SUBSET Served(names)

\* fetch_github, which has to reach its host, and the required domain are fatal,
\* any other name is skipped; what was added before a failure stays in the set.
Resolves ==
  /\ run.step = "resolve"
  /\ \E got \in Found(run.names) :
       /\ allow' = allow \cup got
       /\ \/ /\ got \cap Serves[GitHub] # {} /\ got \cap Serves[Required] # {}
             /\ Answers(GitHub)
             /\ Continues("rules")
             /\ UNCHANGED <<phase, net, file, claude, missed>>
          \/ Trapped
  /\ UNCHANGED <<box, loop, missed>>

\* The rules and the policies, and IPv6 if ip6tables can be listed; none of the
\* calls is checked, so any of them may be without effect.
Installs ==
  /\ run.step = "rules"
  /\ \E done \in SUBSET Calls : net' = net \cup done
  /\ Continues("probe")
  /\ UNCHANGED <<box, phase, allow, loop, file, claude, missed>>

\* The probes: example.com must not answer, over either protocol, and the two
\* allowed hosts must.  Each may fail to answer for a reason of its own.
Succeeds ==
  /\ run.step = "probe"
  /\ Answers(Required) /\ Answers(GitHub)
  /\ missed' = (Leaves(Example) \/ LeavesOnSix)
  /\ Writes("active")
  /\ \E again \in {run.names, {}} : loop' = again
  /\ Exits(TRUE)
  /\ UNCHANGED <<box, net, allow>>

ProbeFails == run.step = "probe" /\ Fails

\* The refresh: only ever adds, what the names of its own run resolve to.
Refreshes ==
  /\ loop # {}
  /\ \E got \in Found(loop) : allow' = allow \cup got
  /\ UNCHANGED <<box, phase, run, net, loop, file, claude, missed>>

(***************************************************************************)
(* The container                                                           *)
(***************************************************************************)

\* docker start: a new network namespace, the files of the old container.
Starts ==
  /\ phase = "down"
  /\ phase' = "boot"
  /\ net' = {}
  /\ missed' = FALSE
  /\ allow' = {}
  /\ file' = [file EXCEPT !.fresh = FALSE]
  /\ UNCHANGED <<box, run, loop, claude>>

\* setup_firewall(): mode off, or the script.
SetsUp ==
  /\ phase = "boot"
  /\ \/ /\ ~box.enforce
        /\ phase' = "session" /\ claude' = TRUE
        /\ run' = run
     \/ /\ box.enforce
        /\ phase' = "firewall" /\ claude' = claude
        /\ run' = [step |-> "guards", by |-> "entrypoint", names |-> Whitelist]
  /\ UNCHANGED <<box, net, allow, loop, file, missed>>

\* sudo init-firewall.sh from the session, with any FIREWALL_ALLOW.
RunsAgain ==
  /\ phase = "session"
  /\ run.step = "idle"
  /\ \E names \in SUBSET Names :
       run' = [step |-> "guards", by |-> "agent",
               names |-> Whitelist \cup names]
  /\ UNCHANGED <<box, phase, net, allow, loop, file, claude, missed>>

\* The run dies without its trap, by SIGKILL or for want of memory.
Killed ==
  /\ run.step # "idle"
  /\ Exits(FALSE)
  /\ UNCHANGED <<box, net, allow, loop, file, missed>>

\* docker stop, or the end of the session: every process dies with PID 1.
Stops ==
  /\ phase # "down"
  /\ phase' = "down"
  /\ run' = Idle
  /\ loop' = {}
  /\ claude' = FALSE
  /\ UNCHANGED <<box, net, allow, file, missed>>

Next ==
  \/ Starts \/ SetsUp \/ RunsAgain \/ Killed \/ Stops
  \/ Refused \/ Begins \/ MakesChain \/ MakesSet \/ Resolves \/ Installs
  \/ Succeeds \/ ProbeFails \/ Refreshes

Spec == Init /\ [][Next]_vars

(***************************************************************************)
(* Properties                                                              *)
(***************************************************************************)

\* Claude runs, where the firewall is enforced, only behind an active filter:
\* whatever a failed, killed or refused run of the script left, whatever names
\* the agent runs it again with, however often the whitelist was resolved again
\* or the container restarted, nothing leaves over IPv4 but to what the operator
\* allowed, and nothing over IPv6.  No rule is checked when it is installed, and
\* without ip6tables IPv6 is taken for nothing to filter; two calls have to fail
\* to leave a hole in IPv4, and then, as for an open IPv6, the probe has to miss
\* it: those are the exceptions.
ClaudeIsConfined ==
  claude /\ box.enforce =>
    /\ file.token = "active" /\ file.fresh
    /\ ~Hole => \A a \in Addresses : Leaves(a) => a \in Served(Whitelist)
    /\ ~missed => ~Hole /\ ~LeavesOnSix

\* The state file never claims more than the tables do, from the first time the
\* script writes it after a start: "active" that nothing leaves but to the set,
\* unless the probe missed it; "failed" that nothing leaves over IPv4, the only
\* side seal() touches, except that a flush which failed unnoticed leaves the
\* way to the set.  The text beside "failed", and the entrypoint's, speaks of
\* loopback only, which is more than either.
StateIsTrue ==
  file.fresh =>
    /\ file.token = "active" =>
         "chain" \in net /\ (~missed => ~Hole /\ ~LeavesOnSix)
    /\ file.token = "failed" =>
         \A a \in Addresses : Leaves(a) => "jump" \in net /\ a \in allow

=============================================================================
