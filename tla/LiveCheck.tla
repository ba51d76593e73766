------------------------------ MODULE LiveCheck ------------------------------
(***************************************************************************)
(* The two scripts that ask the live networks: the check of the chain      *)
(* registry against what its endpoints report, all chains of an            *)
(* environment at once and one environment after the other, and the        *)
(* monitor of the agents' balances, one after the other.  Any request may  *)
(* fail, also the second to an endpoint that has answered the first.       *)
(***************************************************************************)
EXTENDS Integers, Sequences

CONSTANTS
    Checked,       \* the environments checked, in order
    ChainsOf,      \* ChainsOf[e]: the chains of environment e
    Endpoints,     \* Endpoints[c]: its endpoints, in the order they are tried
    Registered,    \* Registered[c]: its [id, domain] in the registry
    Reported,      \* Reported[u]: the [id, domain] of the chain behind endpoint u
    Mailboxed,     \* the chains with a Mailbox address on file
    Unconfigured,  \* a value of the registry that is not set
    Monitored,     \* the chains the monitor knows, in order
    Agents,        \* the agents with a key, in order
    Limits,        \* Limits[a]: the [warning, critical] transactions of its role
    Balances,      \* what an agent may have, in the gas of one of its transactions
    Prices,        \* what a unit of gas may cost
    Nobody

ASSUME LiveCheckAssumption ==
    /\ \A a \in DOMAIN Limits : Limits[a].critical <= Limits[a].warning
    /\ Balances \subseteq Nat /\ Prices \subseteq Nat
    /\ Checked \in Seq(DOMAIN ChainsOf)
    /\ Nobody \notin {"OK", "disagrees", "error"} /\ Nobody \notin {0, 1}

Chain == UNION {ChainsOf[e] : e \in DOMAIN ChainsOf}

VARIABLES
    turn,      \* the place in Checked of the environment being checked
    step,      \* step[c]: the request chain c awaits
    endpoint,  \* endpoint[c]: the place in Endpoints[c] being tried, then used
    lines,     \* lines[c]: the statuses of its lines
    failed,
    verdict,   \* how the check of the registry ended
    at,        \* the monitor's place: a chain and the agent asked, 0 for the price
    price,     \* the price of gas read for it
    read,      \* the levels read so far
    worst,
    exit       \* how the monitor ended

registryVars == <<turn, step, endpoint, lines, failed, verdict>>
monitorVars == <<at, price, read, worst, exit>>
----------------------------------------------------------------------------
(* The registry.                                                           *)

RegistryInit ==
    /\ turn = 1 /\ failed = FALSE /\ verdict = Nobody
    /\ step = [c \in Chain |-> "reach"]
    /\ endpoint = [c \in Chain |-> 1]
    /\ lines = [c \in Chain |-> {}]

Awaits(c, request) ==
    /\ verdict = Nobody /\ turn <= Len(Checked)
    /\ c \in ChainsOf[Checked[turn]]
    /\ step[c] = request

Moves(c, next, said) ==
    /\ step' = [step EXCEPT ![c] = next]
    /\ lines' = [lines EXCEPT ![c] = @ \cup said]
    /\ UNCHANGED <<turn, failed, verdict>>

NoEndpoint(c) ==
    /\ Awaits(c, "reach") /\ Endpoints[c] = <<>>
    /\ Moves(c, "done", {"skipped"})
    /\ UNCHANGED endpoint

\* The first endpoint that answers is used for the rest.
Reached(c) ==
    /\ Awaits(c, "reach") /\ endpoint[c] <= Len(Endpoints[c])
    /\ \/ Moves(c, "chain id", {}) /\ UNCHANGED endpoint
       \/ /\ endpoint' = [endpoint EXCEPT ![c] = @ + 1]
          /\ IF endpoint[c] = Len(Endpoints[c]) THEN Moves(c, "done", {"unreachable"})
             ELSE Moves(c, "reach", {})

Live(c) == Reported[Endpoints[c][endpoint[c]]]

\* Another request: the endpoint may fail by now.
ReadChainId(c) ==
    /\ Awaits(c, "chain id")
    /\ Moves(c, "block", {}) \/ Moves(c, "done", {"unreachable"})
    /\ UNCHANGED endpoint

IdLine(c) == IF Registered[c].id = Live(c).id THEN "ok" ELSE "mismatch"

PendingLine(c) == IF Registered[c].domain = Unconfigured THEN "skipped" ELSE "unverified"

\* The chain id is only compared once the block has been read too.
ReadBlock(c) ==
    /\ Awaits(c, "block")
    /\ \/ Moves(c, "done", {"unreachable"})
       \/ /\ c \in Mailboxed /\ Moves(c, "domain", {IdLine(c)})
       \/ /\ c \notin Mailboxed /\ Moves(c, "done", {IdLine(c), PendingLine(c)})
    /\ UNCHANGED endpoint

DomainLine(c) == IF Registered[c].domain = Live(c).domain THEN "ok" ELSE "mismatch"

ReadDomain(c) ==
    /\ Awaits(c, "domain")
    /\ \E line \in {DomainLine(c), "unreachable"} : Moves(c, "done", {line})
    /\ UNCHANGED endpoint

Disagree(e) == \E c \in ChainsOf[e] : "mismatch" \in lines[c]

\* Mutant of Reports: each environment starts anew.
ReportsAnew(e) == Disagree(e)

Reports(e) == failed \/ Disagree(e)

\* All chains of the environment are done.
EnvironmentDone ==
    /\ verdict = Nobody /\ turn <= Len(Checked)
    /\ \A c \in ChainsOf[Checked[turn]] : step[c] = "done"
    /\ failed' = Reports(Checked[turn])
    /\ turn' = turn + 1
    /\ verdict' = IF turn < Len(Checked) THEN Nobody ELSE IF failed' THEN "disagrees" ELSE "OK"
    /\ UNCHANGED <<step, endpoint, lines>>

\* The artifacts of the next environment cannot be loaded.
ArtifactsFail ==
    /\ verdict = Nobody /\ turn <= Len(Checked)
    /\ \A c \in ChainsOf[Checked[turn]] : step[c] = "reach" /\ endpoint[c] = 1
    /\ verdict' = "error"
    /\ UNCHANGED <<turn, step, endpoint, lines, failed>>

RegistryNext ==
    \/ \E c \in Chain : NoEndpoint(c) \/ Reached(c) \/ ReadChainId(c) \/ ReadBlock(c) \/ ReadDomain(c)
    \/ EnvironmentDone \/ ArtifactsFail
----------------------------------------------------------------------------
(* The monitor.                                                            *)

MonitorInit ==
    /\ at = [chain |-> 1, agent |-> 0] /\ price = Nobody
    /\ read = {} /\ worst = 0 /\ exit = Nobody

Running == exit = Nobody /\ at.chain <= Len(Monitored)

NextChain == at' = [chain |-> at.chain + 1, agent |-> 0] /\ price' = Nobody

NextAgent == IF at.agent < Len(Agents) THEN at' = [at EXCEPT !.agent = @ + 1] /\ UNCHANGED price
             ELSE NextChain

\* A chain that does not tell the price of its gas is passed over.
ReadPrice ==
    /\ Running /\ at.agent = 0
    /\ \/ NextChain
       \/ \E p \in Prices : /\ price' = p
                            /\ at' = IF Agents = <<>> THEN [at EXCEPT !.chain = @ + 1]
                                     ELSE [at EXCEPT !.agent = 1]
    /\ UNCHANGED <<read, worst, exit>>

\* The transactions that are left; gas that costs nothing never runs out.
Level(a, balance) ==
    IF price = 0 THEN "ok"
    ELSE LET remaining == balance \div price
         IN  IF remaining < Limits[a].critical THEN "critical"
             ELSE IF remaining < Limits[a].warning THEN "warning" ELSE "ok"

Worse(level) ==
    CASE level = "critical" -> 2
      [] level = "warning" -> IF worst > 1 THEN worst ELSE 1
      [] OTHER -> worst

ReadBalance ==
    /\ Running /\ at.agent > 0
    /\ \/ UNCHANGED <<read, worst>>
       \/ \E b \in Balances :
             LET level == Level(Agents[at.agent], b)
             IN  read' = read \cup {level} /\ worst' = Worse(level)
    /\ NextAgent
    /\ UNCHANGED exit

MonitorExits ==
    /\ exit = Nobody /\ at.chain > Len(Monitored)
    /\ exit' = IF worst = 2 THEN 1 ELSE 0
    /\ UNCHANGED <<at, price, read, worst>>

MonitorNext == ReadPrice \/ ReadBalance \/ MonitorExits

\* The two scripts are processes of their own.
LiveCheckSpec ==
    /\ RegistryInit /\ MonitorInit
    /\ [][\/ RegistryNext /\ UNCHANGED monitorVars
          \/ MonitorNext /\ UNCHANGED registryVars]_<<registryVars, monitorVars>>
----------------------------------------------------------------------------
\* Neither check lets a later answer, or the lack of one, take back what an
\* earlier one said: the registry passes if and only if no chain whose answers
\* all came is registered otherwise than they say, "an unreachable endpoint ...
\* is reported but not fatal" (check-chains.ts); and the monitor fails if and
\* only if some agent was read below its critical limit.
VerdictsAreFounded ==
    /\ verdict \in {"OK", "disagrees"} =>
          (verdict = "OK" <=>
             \A i \in DOMAIN Checked : \A c \in ChainsOf[Checked[i]] :
                /\ lines[c] \cap {"ok", "mismatch"} # {} => Registered[c].id = Live(c).id
                /\ (c \in Mailboxed /\ lines[c] \cap {"ok", "mismatch"} # {} /\ "unreachable" \notin lines[c])
                      => Registered[c].domain = Live(c).domain)
    /\ exit # Nobody => (exit = 1 <=> "critical" \in read)
=============================================================================
