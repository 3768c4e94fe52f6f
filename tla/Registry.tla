------------------------------- MODULE Registry -------------------------------
(***************************************************************************)
(* The catalogue of the source parent: agents (crates/source/src/agent.rs),  *)
(* data sources (datasource.rs), tasks (task_store.rs) and the handlers of   *)
(* http.rs that change them.  Each store has a lock of its own and a handler *)
(* takes one for every statement, so that handlers, the probe loop and what  *)
(* answers at an address may change between any two of its steps.            *)
(***************************************************************************)
EXTENDS Naturals

CONSTANTS
    Agents,         \* ids of rows of agents
    Urls,           \* addresses
    Instances,      \* identities that agents report of themselves
    Sources,        \* ids of MySQL data sources
    Tasks,          \* task ids
    Secrets,        \* passwords
    Callers,        \* threads that serve requests, the probe loop among them
    MaxCalls,       \* bound: requests and probes, restarts and moved machines, together
    Legacy,         \* sink_base_url of source.toml
    Nobody, NoAgent, NoSource, Blank

ASSUME RegistryAssumption ==
    /\ Nobody \notin Instances /\ NoAgent \notin Agents /\ NoSource \notin Sources
    /\ Blank \notin Secrets /\ Legacy \in Urls /\ MaxCalls \in Nat
    /\ Sources \cap Tasks = {}

VARIABLES
    who,            \* who[u]: the instance that answers at u, if any
    heard,          \* <<u, x>>: x has answered at u to this parent
    agent,          \* AgentStore
    source,         \* DatasourceStore
    target,         \* TaskStore: the target data source of a task
    call,           \* what a caller is at, and what it has read so far
    phase,          \* of the parent: "migrating", "backfilling" or "up"
    calls,          \* requests, probes, restarts and moves so far, bounded
    sound,          \* sources and tasks that were saved with what they refer to
    lastSet,        \* the password a user last saved for a source
    mixed,          \* sources last given a password while another update was about to write
    cut             \* the parent died between migration and backfill

rows == <<agent, source, target>>
ghosts == <<sound, lastSet, mixed, cut>>
registryVars == <<who, heard, rows, call, phase, calls, ghosts>>

NoRow == [there |-> FALSE, url |-> Legacy, pin |-> Nobody, status |-> "offline", told |-> Nobody]
NoEntry == [there |-> FALSE, agent |-> NoAgent, secret |-> Blank]
Idle == [at |-> "idle", agent |-> NoAgent, url |-> Legacy, info |-> Nobody, source |-> NoSource, given |-> Blank, kept |-> Blank]

Fresh == calls < MaxCalls /\ calls' = calls + 1
Serve(c) == phase = "up" /\ call[c].at = "idle" /\ Fresh
Becomes(c, step) == call' = [call EXCEPT ![c] = step]
Done(c) == Becomes(c, Idle)

-----------------------------------------------------------------------------
(* The world: fetch_agent_info asks whoever answers at an address. *)

Move(u) ==
    /\ Fresh
    /\ \E x \in Instances \cup {Nobody} : x # who[u] /\ who' = [who EXCEPT ![u] = x]
    /\ UNCHANGED <<heard, rows, call, phase, ghosts>>

Ask(u) == heard' = heard \cup ({<<u, who[u]>>} \cap (Urls \X Instances))

-----------------------------------------------------------------------------
(* Agents *)

\* A row as register and update write it.
Seen(u, x) == [there |-> TRUE, url |-> u, pin |-> x, status |-> "online", told |-> x]

\* Registering and moving an agent ask the address first; without an answer nothing is stored.
AskAgent(c, a, u) ==
    /\ Serve(c) /\ Ask(u)
    /\ IF who[u] = Nobody THEN Done(c)
       ELSE Becomes(c, [Idle EXCEPT !.at = IF a = NoAgent THEN "registering" ELSE "updating",
                                    !.agent = a, !.url = u, !.info = who[u]])
    /\ UNCHANGED <<who, rows, phase, ghosts>>

Register(c) ==
    /\ call[c].at = "registering"
    /\ \E a \in Agents :
        /\ ~agent[a].there
        /\ agent' = [agent EXCEPT ![a] = Seen(call[c].url, call[c].info)]
    /\ Done(c)
    /\ UNCHANGED <<who, heard, source, target, phase, calls, ghosts>>

\* The identity is pinned again: a machine replaced by hand.
UpdateAgent(c) ==
    /\ call[c].at = "updating"
    /\ agent' = [agent EXCEPT ![call[c].agent] =
                     IF @.there THEN Seen(call[c].url, call[c].info) ELSE @]
    /\ Done(c)
    /\ UNCHANGED <<who, heard, source, target, phase, calls, ghosts>>

\* probe_and_record, for a request, a run about to start or the probe loop: the
\* address is read under the lock, ...
BeginProbe(c, a) ==
    /\ Serve(c) /\ agent[a].there
    /\ Becomes(c, [Idle EXCEPT !.at = "asking", !.agent = a, !.url = agent[a].url])
    /\ UNCHANGED <<who, heard, rows, phase, ghosts>>

\* ... asked without it, ...
Probe(c) ==
    /\ call[c].at = "asking" /\ Ask(call[c].url)
    /\ Becomes(c, [call[c] EXCEPT !.at = "recording", !.info = who[call[c].url]])
    /\ UNCHANGED <<who, rows, phase, calls, ghosts>>

\* probed_self: it answers as itself, or it is the first to answer for a migrated row.
ProbedSelf(row, x) == x # Nobody /\ row.pin \in {x, Nobody}

SlipAfterProbe(row, x) ==
    CASE x # Nobody -> [row EXCEPT !.pin = x, !.status = "online", !.told = x]
      [] OTHER -> [row EXCEPT !.status = "offline"]

\* record_probe never pins again what is pinned, nor stores what a stranger reports.
AfterProbe(row, x) ==
    CASE ProbedSelf(row, x) -> [row EXCEPT !.pin = x, !.status = "online", !.told = x]
      [] x = Nobody -> [row EXCEPT !.status = "offline"]
      [] OTHER -> [row EXCEPT !.status = "mismatch"]

\* ... and the answer recorded under it, if the row is still there.
RecordProbe(c) ==
    /\ call[c].at = "recording"
    /\ agent' = [agent EXCEPT ![call[c].agent] = IF @.there THEN AfterProbe(@, call[c].info) ELSE @]
    /\ Done(c)
    /\ UNCHANGED <<who, heard, source, target, phase, calls, ghosts>>

Referring(a) == {d \in Sources : source[d].there /\ source[d].agent = a}

SlipAskDeleteAgent(c, a) ==
    /\ Serve(c) /\ agent[a].there
    /\ Becomes(c, [Idle EXCEPT !.at = "deleting agent", !.agent = a])
    /\ UNCHANGED <<who, heard, rows, phase, ghosts>>

\* handle_delete_agent looks at the data sources and deletes afterwards.
AskDeleteAgent(c, a) ==
    /\ Serve(c) /\ agent[a].there /\ Referring(a) = {}
    /\ Becomes(c, [Idle EXCEPT !.at = "deleting agent", !.agent = a])
    /\ UNCHANGED <<who, heard, rows, phase, ghosts>>

DeleteAgent(c) ==
    /\ call[c].at = "deleting agent"
    /\ agent' = [agent EXCEPT ![call[c].agent] = NoRow]
    /\ Done(c)
    /\ UNCHANGED <<who, heard, source, target, phase, calls, ghosts>>

-----------------------------------------------------------------------------
(* Data sources and tasks *)

Deleting(step, field, id) == \E c \in Callers : call[c].at = step /\ call[c][field] = id
Saved(id, ok) == sound' = IF ok THEN sound \cup {id} ELSE sound \ {id}
Mixes(c, d, anew) ==
    mixed' = IF \E e \in Callers \ {c} : call[e].at = "writing" /\ call[e].source = d
             THEN mixed \cup {d}
             ELSE IF anew THEN mixed \ {d} ELSE mixed
BoundWell(a) == agent[a].there /\ ~Deleting("deleting agent", "agent", a)

\* check_bound_agent_exists, for a new data source and for a change of one.
AskSave(c, d, a, given) ==
    /\ Serve(c) /\ agent[a].there
    /\ Becomes(c, [Idle EXCEPT !.at = IF source[d].there THEN "reading" ELSE "creating",
                               !.agent = a, !.source = d, !.given = given])
    /\ UNCHANGED <<who, heard, rows, phase, ghosts>>

CreateSource(c) ==
    LET step == call[c] IN
    /\ step.at = "creating" /\ ~source[step.source].there
    /\ source' = [source EXCEPT ![step.source] =
                      [there |-> TRUE, agent |-> step.agent, secret |-> step.given]]
    /\ Saved(step.source, BoundWell(step.agent))
    /\ lastSet' = [lastSet EXCEPT ![step.source] = step.given]
    /\ Mixes(c, step.source, TRUE)
    /\ Done(c)
    /\ UNCHANGED <<who, heard, agent, target, phase, calls, cut>>

\* DatasourceStore::update: the stored row is read, ...
ReadSource(c) ==
    LET step == call[c] IN
    /\ step.at = "reading"
    /\ IF ~source[step.source].there THEN Done(c)
       ELSE Becomes(c, [step EXCEPT !.at = "writing", !.kept = source[step.source].secret])
    /\ UNCHANGED <<who, heard, rows, phase, calls, ghosts>>

SlipEffective(given, kept) == given

\* An empty password means the stored one, for a save as for a test of the form.
Effective(given, kept) == IF given = Blank THEN kept ELSE given

\* ... and the row is written under the lock taken anew.
WriteSource(c) ==
    LET step == call[c]
        id == step.source
    IN
    /\ step.at = "writing"
    /\ source' = [source EXCEPT ![id] =
                      IF ~@.there THEN @
                      ELSE [@ EXCEPT !.agent = step.agent,
                                     !.secret = Effective(step.given, step.kept)]]
    /\ Saved(id, BoundWell(step.agent))
    /\ lastSet' = [lastSet EXCEPT ![id] = IF step.given = Blank THEN @ ELSE step.given]
    /\ Mixes(c, id, step.given # Blank)
    /\ Done(c)
    /\ UNCHANGED <<who, heard, agent, target, phase, calls, cut>>

\* handle_delete_datasource asks for the tasks and deletes afterwards.
AskDeleteSource(c, d) ==
    /\ Serve(c) /\ source[d].there /\ \A t \in Tasks : target[t] # d
    /\ Becomes(c, [Idle EXCEPT !.at = "deleting source", !.source = d])
    /\ UNCHANGED <<who, heard, rows, phase, ghosts>>

DeleteSource(c) ==
    /\ call[c].at = "deleting source"
    /\ source' = [source EXCEPT ![call[c].source] = NoEntry]
    /\ Mixes(c, call[c].source, TRUE)
    /\ Done(c)
    /\ UNCHANGED <<who, heard, agent, target, phase, calls, sound, lastSet, cut>>

\* Saving a task is one statement; nothing looks for the data source it names.
SaveTask(c, t, d) ==
    /\ Serve(c)
    /\ target' = [target EXCEPT ![t] = d]
    /\ Saved(t, d \in Sources /\ source[d].there /\ ~Deleting("deleting source", "source", d))
    /\ UNCHANGED <<who, heard, agent, source, call, phase, lastSet, mixed, cut>>

-----------------------------------------------------------------------------
(* Starting: the one-time migration of sink_base_url *)

Unbound == {d \in Sources : source[d].there /\ source[d].agent = NoAgent}

\* Only an empty table is migrated, and the port is not open yet.
Migrate ==
    /\ phase = "migrating"
    /\ IF \E a \in Agents : agent[a].there
       THEN phase' = "up" /\ UNCHANGED <<agent, call>>
       ELSE \E a \in Agents, c \in Callers :
                /\ agent' = [agent EXCEPT ![a] = [NoRow EXCEPT !.there = TRUE]]
                /\ Becomes(c, [Idle EXCEPT !.at = "backfilling", !.agent = a])
                /\ phase' = "backfilling"
    /\ UNCHANGED <<who, heard, source, target, calls, ghosts>>

\* backfill_missing_agent_id, one UPDATE after the other.
Backfill(c) ==
    /\ call[c].at = "backfilling"
    /\ IF Unbound = {} THEN phase' = "up" /\ Done(c) /\ UNCHANGED <<source, sound>>
       ELSE \E d \in Unbound :
                /\ source' = [source EXCEPT ![d].agent = call[c].agent]
                /\ Saved(d, TRUE)
                /\ UNCHANGED <<call, phase>>
    /\ UNCHANGED <<who, heard, agent, target, calls, lastSet, mixed, cut>>

Restart ==
    /\ Fresh
    /\ phase' = "migrating" /\ call' = [c \in Callers |-> Idle]
    /\ cut' = (cut \/ phase = "backfilling")
    /\ UNCHANGED <<who, heard, rows, sound, lastSet, mixed>>

-----------------------------------------------------------------------------
\* A data source of a release without agents has none.
RegistryInit ==
    /\ who = [u \in Urls |-> Nobody] /\ heard = {}
    /\ agent = [a \in Agents |-> NoRow]
    /\ source = [d \in Sources |-> [NoEntry EXCEPT !.there = TRUE]]
    /\ target = [t \in Tasks |-> NoSource]
    /\ call = [c \in Callers |-> Idle]
    /\ phase = "migrating" /\ calls = 0
    /\ sound = {} /\ lastSet = [d \in Sources |-> Blank] /\ mixed = {} /\ cut = FALSE

Handle(c) ==
    \/ \E u \in Urls : AskAgent(c, NoAgent, u) \/ \E a \in Agents : AskAgent(c, a, u)
    \/ \E a \in Agents : BeginProbe(c, a) \/ AskDeleteAgent(c, a)
    \/ \E a \in Agents, d \in Sources, s \in Secrets \cup {Blank} : AskSave(c, d, a, s)
    \/ \E d \in Sources : AskDeleteSource(c, d)
    \/ \E t \in Tasks, d \in Sources \cup {NoSource} : SaveTask(c, t, d)
    \/ Register(c) \/ UpdateAgent(c) \/ Probe(c) \/ RecordProbe(c) \/ DeleteAgent(c)
    \/ CreateSource(c) \/ ReadSource(c) \/ WriteSource(c) \/ DeleteSource(c)
    \/ Backfill(c)

RegistryNext ==
    \/ \E u \in Urls : Move(u)
    \/ \E c \in Callers : Handle(c)
    \/ Migrate \/ Restart

RegistrySpec == RegistryInit /\ [][RegistryNext]_registryVars

-----------------------------------------------------------------------------
(* Properties *)

\* The identity pinned in a row belongs to its address: it has answered there, and
\* what the row says of version, MySQL and quota comes from it, whatever updates,
\* late probes and replaced machines come in between.
PinTrue ==
    \A a \in Agents : agent[a].there =>
        /\ agent[a].pin # Nobody => <<agent[a].url, agent[a].pin>> \in heard
        /\ agent[a].told \in {Nobody, agent[a].pin}
        /\ agent[a].status = "online" => agent[a].pin # Nobody

\* Nothing that was saved with what it refers to loses it: no agent goes from under a
\* data source, no data source from under a task, unless the save and the deletion
\* overlapped; and after the migration no data source is without an agent, unless
\* the parent died on the way.
RefersWell ==
    /\ \A d \in Sources : source[d].there /\ d \in sound =>
           source[d].agent \in Agents /\ agent[source[d].agent].there
    /\ \A t \in Tasks : target[t] # NoSource /\ t \in sound => source[target[t]].there
    /\ phase = "up" /\ ~cut => Unbound = {}

\* A password that was saved stays until another is saved: edits that leave it empty
\* do not bring an earlier one back, unless two of them overlapped.
SecretKept ==
    \A d \in Sources : source[d].there /\ d \notin mixed => source[d].secret = lastSet[d]

=============================================================================
