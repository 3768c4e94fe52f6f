---------------------------- MODULE RecordsProofs ----------------------------
(***************************************************************************)
(* Theorems about the parent's records: the catalogue of agents, data       *)
(* sources and tasks (Registry) and the log lines of runs (RunLog).          *)
(***************************************************************************)
EXTENDS Registry, RunLog, FiniteSetTheorems, WellFoundedInduction, TLAPS

-----------------------------------------------------------------------------
(* The catalogue: what every handler relies on. *)

Rows == [there : BOOLEAN, url : Urls, pin : Instances \cup {Nobody},
         status : {"offline", "online", "mismatch"}, told : Instances \cup {Nobody}]

Entries == [there : BOOLEAN, agent : Agents \cup {NoAgent}, secret : Secrets \cup {Blank}]

AgentPoints == {"updating", "asking", "recording", "deleting agent", "creating", "reading",
                "writing", "backfilling"}
SourcePoints == {"creating", "reading", "writing", "deleting source"}
Points == AgentPoints \cup SourcePoints \cup {"idle", "registering"}

Steps == [at : Points, agent : Agents \cup {NoAgent}, url : Urls, info : Instances \cup {Nobody},
          source : Sources \cup {NoSource}, given : Secrets \cup {Blank}, kept : Secrets \cup {Blank}]

StepWell(s) == /\ s.at \in AgentPoints => s.agent \in Agents
               /\ s.at \in SourcePoints => s.source \in Sources

RegistryTypes ==
    /\ who \in [Urls -> Instances \cup {Nobody}] /\ heard \in SUBSET (Urls \X Instances)
    /\ agent \in [Agents -> Rows]
    /\ source \in [Sources -> Entries]
    /\ target \in [Tasks -> Sources \cup {NoSource}]
    /\ call \in [Callers -> {s \in Steps : StepWell(s)}]
    /\ phase \in {"migrating", "backfilling", "up"}
    /\ sound \in SUBSET (Sources \cup Tasks)
    /\ lastSet \in [Sources -> Secrets \cup {Blank}]
    /\ mixed \in SUBSET Sources /\ cut \in BOOLEAN

\* Nothing is served before the parent is up, and one thread fills in the agents.
PhaseInv ==
    \A c \in Callers :
        /\ phase # "up" => call[c].at \in {"idle", "backfilling"}
        /\ call[c].at = "backfilling" =>
               /\ phase = "backfilling" /\ agent[call[c].agent].there
               /\ \A e \in Callers \ {c} : call[e].at = "idle"

\* An answer under way was given at the address it was asked at, ...
AnswersHeard ==
    \A c \in Callers :
        /\ call[c].at \in {"registering", "updating"} => <<call[c].url, call[c].info>> \in heard
        /\ call[c].at = "recording" /\ call[c].info # Nobody => <<call[c].url, call[c].info>> \in heard

\* ... and while a row is not pinned, that is the address the row still has: nothing but
\* registering and moving an agent writes an address, and both of them pin.
FirstAnswer ==
    \A c \in Callers :
        LET row == agent[call[c].agent] IN
        call[c].at \in {"asking", "recording"} /\ row.there /\ row.pin = Nobody => call[c].url = row.url

PinInv == PinTrue /\ AnswersHeard /\ FirstAnswer

\* Nobody is about to delete what something saved refers to.
SourcesRefer ==
    \A d \in Sources : source[d].there /\ d \in sound =>
        /\ source[d].agent \in Agents /\ agent[source[d].agent].there
        /\ \A c \in Callers : ~(call[c].at = "deleting agent" /\ call[c].agent = source[d].agent)

TasksRefer ==
    \A t \in Tasks : target[t] # NoSource /\ t \in sound =>
        /\ source[target[t]].there
        /\ \A c \in Callers : ~(call[c].at = "deleting source" /\ call[c].source = target[t])

\* A parent that restarts finds the agents of the life before filled in.
AllBound ==
    /\ ~cut
    /\ phase = "up" \/ (phase = "migrating" /\ \E a \in Agents : agent[a].there)
    => Unbound = {}

\* The password read by an update is the one last saved, unless the update overlaps another.
SecretInv ==
    /\ SecretKept
    /\ \A c \in Callers : call[c].at = "writing" /\ call[c].source \notin mixed =>
           call[c].kept = lastSet[call[c].source]

RegistryInv == RegistryTypes /\ PhaseInv /\ PinInv /\ SourcesRefer /\ TasksRefer /\ AllBound /\ SecretInv

LEMMA IdleWell == Idle \in Steps /\ StepWell(Idle) /\ NoRow \in Rows /\ NoEntry \in Entries
BY RegistryAssumption DEF Idle, Steps, StepWell, NoRow, Rows, NoEntry, Entries, Points, AgentPoints, SourcePoints

LEMMA RegistryStarts == RegistryInit => RegistryInv
<1> SUFFICES ASSUME RegistryInit PROVE RegistryInv
  OBVIOUS
<1> USE IdleWell, RegistryAssumption
<1>1. RegistryTypes
  <2>1. [NoEntry EXCEPT !.there = TRUE] \in Entries
    BY DEF NoEntry, Entries
  <2>2. QED
    BY <2>1 DEF RegistryInit, RegistryTypes
<1>2. PhaseInv
  BY DEF RegistryInit, PhaseInv, Idle
<1>3. PinInv
  BY DEF RegistryInit, PinInv, PinTrue, AnswersHeard, FirstAnswer, NoRow, Idle
<1>4. SourcesRefer /\ TasksRefer
  BY DEF RegistryInit, SourcesRefer, TasksRefer
<1>5. AllBound
  BY DEF RegistryInit, AllBound, NoRow
<1>6. SecretInv
  BY DEF RegistryInit, SecretInv, SecretKept, NoEntry, Idle
<1>7. QED
  BY <1>1, <1>2, <1>3, <1>4, <1>5, <1>6 DEF RegistryInv

-----------------------------------------------------------------------------
(* What a step does to the threads. *)

LEMMA BecomesMove ==
    ASSUME RegistryTypes, NEW c \in Callers, NEW step, Becomes(c, step)
    PROVE  call'[c] = step /\ \A e \in Callers \ {c} : call'[e] = call[e]
BY DEF Becomes, RegistryTypes

LEMMA BecomesTyped ==
    ASSUME RegistryTypes, NEW c \in Callers, NEW step \in Steps, StepWell(step), Becomes(c, step)
    PROVE  call' \in [Callers -> {s \in Steps : StepWell(s)}]
BY DEF Becomes, RegistryTypes

LEMMA CallWell ==
    ASSUME RegistryTypes, NEW c \in Callers
    PROVE  call[c] \in Steps /\ StepWell(call[c])
BY DEF RegistryTypes

\* The rows that are written are rows.
LEMMA SeenTyped ==
    ASSUME NEW u \in Urls, NEW x \in Instances
    PROVE  Seen(u, x) \in Rows
BY DEF Seen, Rows

LEMMA AfterProbeDoes ==
    ASSUME NEW row \in Rows, NEW x \in Instances \cup {Nobody}
    PROVE  /\ AfterProbe(row, x) \in Rows
           /\ AfterProbe(row, x).there = row.there /\ AfterProbe(row, x).url = row.url
           /\ \/ x # Nobody /\ row.pin \in {x, Nobody}
                 /\ AfterProbe(row, x).pin = x /\ AfterProbe(row, x).told = x
              \/ /\ AfterProbe(row, x).pin = row.pin /\ AfterProbe(row, x).told = row.told
                 /\ AfterProbe(row, x).status # "online"
<1>1. CASE ProbedSelf(row, x)
  <2>1. AfterProbe(row, x) = [row EXCEPT !.pin = x, !.status = "online", !.told = x]
    BY <1>1 DEF AfterProbe, ProbedSelf
  <2>2. QED
    BY <1>1, <2>1 DEF ProbedSelf, Rows
<1>2. CASE ~ProbedSelf(row, x) /\ x = Nobody
  <2>1. AfterProbe(row, x) = [row EXCEPT !.status = "offline"]
    BY <1>2 DEF AfterProbe
  <2>2. QED
    BY <1>2, <2>1 DEF Rows
<1>3. CASE ~ProbedSelf(row, x) /\ x # Nobody
  <2>1. AfterProbe(row, x) = [row EXCEPT !.status = "mismatch"]
    BY <1>3 DEF AfterProbe
  <2>2. QED
    BY <1>3, <2>1 DEF Rows
<1>4. QED
  BY <1>1, <1>2, <1>3

-----------------------------------------------------------------------------
(* Types *)

RegistryStep == [RegistryNext]_registryVars

\* The steps that a handler takes from point to point, by what they may write.
LEMMA HandlerKeepsTypes ==
    ASSUME RegistryTypes, NEW c \in Callers, Handle(c)
    PROVE  RegistryTypes'
<1> USE IdleWell, RegistryAssumption
<1>0. call[c] \in Steps /\ StepWell(call[c])
  BY CallWell
<1>1. ASSUME NEW u \in Urls, NEW a \in Agents \cup {NoAgent}, AskAgent(c, a, u)
      PROVE  RegistryTypes'
  <2> DEFINE step == [Idle EXCEPT !.at = IF a = NoAgent THEN "registering" ELSE "updating",
                                  !.agent = a, !.url = u, !.info = who[u]]
  <2>1. step \in Steps /\ StepWell(step)
    BY ZenonT(60) DEF step, Steps, StepWell, Idle, Points, AgentPoints, SourcePoints, RegistryTypes
  <2>2. Becomes(c, Idle) \/ Becomes(c, step)
    BY <1>1 DEF AskAgent, Done
  <2> HIDE DEF step
  <2>3. call' \in [Callers -> {s \in Steps : StepWell(s)}]
    BY <2>1, <2>2, BecomesTyped
  <2>4. QED
    BY <1>1, <2>3 DEF AskAgent, Ask, rows, ghosts, RegistryTypes
<1>2. ASSUME NEW a \in Agents, BeginProbe(c, a)
      PROVE  RegistryTypes'
  <2> DEFINE step == [Idle EXCEPT !.at = "asking", !.agent = a, !.url = agent[a].url]
  <2>1. step \in Steps /\ StepWell(step)
    BY DEF step, Steps, StepWell, Idle, Points, AgentPoints, SourcePoints, RegistryTypes, Rows
  <2> HIDE DEF step
  <2>2. call' \in [Callers -> {s \in Steps : StepWell(s)}]
    BY <1>2, <2>1, BecomesTyped DEF BeginProbe, step
  <2>3. QED
    BY <1>2, <2>2 DEF BeginProbe, rows, ghosts, RegistryTypes
<1>3. ASSUME NEW a \in Agents, AskDeleteAgent(c, a)
      PROVE  RegistryTypes'
  <2> DEFINE step == [Idle EXCEPT !.at = "deleting agent", !.agent = a]
  <2>1. step \in Steps /\ StepWell(step)
    BY DEF step, Steps, StepWell, Idle, Points, AgentPoints, SourcePoints
  <2> HIDE DEF step
  <2>2. call' \in [Callers -> {s \in Steps : StepWell(s)}]
    BY <1>3, <2>1, BecomesTyped DEF AskDeleteAgent, step
  <2>3. QED
    BY <1>3, <2>2 DEF AskDeleteAgent, rows, ghosts, RegistryTypes
<1>4. ASSUME NEW a \in Agents, NEW d \in Sources, NEW s \in Secrets \cup {Blank}, AskSave(c, d, a, s)
      PROVE  RegistryTypes'
  <2> DEFINE step == [Idle EXCEPT !.at = IF source[d].there THEN "reading" ELSE "creating",
                                  !.agent = a, !.source = d, !.given = s]
  <2>1. step \in Steps /\ StepWell(step)
    BY DEF step, Steps, StepWell, Idle, Points, AgentPoints, SourcePoints
  <2> HIDE DEF step
  <2>2. call' \in [Callers -> {z \in Steps : StepWell(z)}]
    BY <1>4, <2>1, BecomesTyped DEF AskSave, step
  <2>3. QED
    BY <1>4, <2>2 DEF AskSave, rows, ghosts, RegistryTypes
<1>5. ASSUME NEW d \in Sources, AskDeleteSource(c, d)
      PROVE  RegistryTypes'
  <2> DEFINE step == [Idle EXCEPT !.at = "deleting source", !.source = d]
  <2>1. step \in Steps /\ StepWell(step)
    BY DEF step, Steps, StepWell, Idle, Points, AgentPoints, SourcePoints
  <2> HIDE DEF step
  <2>2. call' \in [Callers -> {s \in Steps : StepWell(s)}]
    BY <1>5, <2>1, BecomesTyped DEF AskDeleteSource, step
  <2>3. QED
    BY <1>5, <2>2 DEF AskDeleteSource, rows, ghosts, RegistryTypes
<1>6. ASSUME NEW t \in Tasks, NEW d \in Sources \cup {NoSource}, SaveTask(c, t, d)
      PROVE  RegistryTypes'
  BY <1>6 DEF SaveTask, Serve, Fresh, Saved, RegistryTypes
<1>7. ASSUME Done(c)
      PROVE  call' \in [Callers -> {s \in Steps : StepWell(s)}]
  BY <1>7, BecomesTyped DEF Done
<1>8. ASSUME Register(c) PROVE RegistryTypes'
  <2>1. PICK a \in Agents : agent' = [agent EXCEPT ![a] = Seen(call[c].url, call[c].info)]
    BY <1>8 DEF Register
  <2>3. QED
    BY <1>8, <1>7, <2>1, SeenTyped, <1>0 DEF Register, ghosts, RegistryTypes, Steps, Seen, Rows
<1>9. ASSUME UpdateAgent(c) PROVE RegistryTypes'
  <2>1. Seen(call[c].url, call[c].info) \in Rows
    BY <1>0 DEF Seen, Rows, Steps
  <2>2. agent' \in [Agents -> Rows]
    BY <1>9, <2>1 DEF UpdateAgent, RegistryTypes
  <2>3. QED
    BY <1>9, <1>7, <2>2 DEF UpdateAgent, ghosts, RegistryTypes
<1>10. ASSUME Probe(c) PROVE RegistryTypes'
  <2> DEFINE step == [call[c] EXCEPT !.at = "recording", !.info = who[call[c].url]]
  <2>1. step \in Steps /\ StepWell(step)
    BY <1>0, <1>10, ZenonT(60) DEF Probe, step, Steps, StepWell, Points, AgentPoints, SourcePoints, RegistryTypes
  <2> HIDE DEF step
  <2>2. call' \in [Callers -> {s \in Steps : StepWell(s)}]
    BY <1>10, <2>1, BecomesTyped DEF Probe, step
  <2>3. QED
    BY <1>10, <2>2 DEF Probe, Ask, rows, ghosts, RegistryTypes
<1>11. ASSUME RecordProbe(c) PROVE RegistryTypes'
  <2>1. \A row \in Rows : AfterProbe(row, call[c].info) \in Rows
    BY <1>0, AfterProbeDoes DEF Steps
  <2>2. agent' \in [Agents -> Rows]
    BY <1>11, <2>1 DEF RecordProbe, RegistryTypes
  <2>3. QED
    BY <1>11, <1>7, <2>2 DEF RecordProbe, ghosts, RegistryTypes
<1>12. ASSUME DeleteAgent(c) PROVE RegistryTypes'
  BY <1>12, <1>7 DEF DeleteAgent, ghosts, RegistryTypes
<1>13. ASSUME NEW d \in Sources, NEW anew, Mixes(c, d, anew)
       PROVE  mixed' \in SUBSET Sources
  BY <1>13 DEF Mixes, RegistryTypes
<1>14. ASSUME NEW d \in Sources, NEW ok, Saved(d, ok)
       PROVE  sound' \in SUBSET (Sources \cup Tasks)
  BY <1>14 DEF Saved, RegistryTypes
<1>15. ASSUME CreateSource(c) PROVE RegistryTypes'
  <2>1. call[c].source \in Sources /\ call[c].agent \in Agents
    BY <1>0, <1>15 DEF CreateSource, StepWell, AgentPoints, SourcePoints
  <2>2. source' \in [Sources -> Entries]
    BY <1>15, <1>0, <2>1 DEF CreateSource, RegistryTypes, Entries, Steps
  <2>3. lastSet' \in [Sources -> Secrets \cup {Blank}]
    BY <1>15, <1>0, <2>1 DEF CreateSource, RegistryTypes, Steps
  <2>4. QED
    BY <1>15, <1>7, <1>13, <1>14, <2>1, <2>2, <2>3 DEF CreateSource, RegistryTypes
<1>16. ASSUME ReadSource(c) PROVE RegistryTypes'
  <2> DEFINE step == [call[c] EXCEPT !.at = "writing", !.kept = source[call[c].source].secret]
  <2>1. step \in Steps /\ StepWell(step)
    BY <1>0, <1>16 DEF ReadSource, step, Steps, StepWell, Points, AgentPoints, SourcePoints, RegistryTypes, Entries
  <2>2. Done(c) \/ Becomes(c, step)
    BY <1>16 DEF ReadSource
  <2> HIDE DEF step
  <2>3. call' \in [Callers -> {s \in Steps : StepWell(s)}]
    BY <2>1, <2>2, <1>7, BecomesTyped
  <2>4. QED
    BY <1>16, <2>3 DEF ReadSource, rows, ghosts, RegistryTypes
<1>17. ASSUME WriteSource(c) PROVE RegistryTypes'
  <2>1. call[c].source \in Sources /\ call[c].agent \in Agents
    BY <1>0, <1>17 DEF WriteSource, StepWell, AgentPoints, SourcePoints
  <2>2. Effective(call[c].given, call[c].kept) \in Secrets \cup {Blank}
    BY <1>0 DEF Effective, Steps
  <2>3. source' \in [Sources -> Entries]
    BY <1>17, <2>1, <2>2 DEF WriteSource, RegistryTypes, Entries
  <2>4. lastSet' \in [Sources -> Secrets \cup {Blank}]
    BY <1>17, <1>0, <2>1 DEF WriteSource, RegistryTypes, Steps
  <2>5. QED
    BY <1>17, <1>7, <1>13, <1>14, <2>1, <2>3, <2>4 DEF WriteSource, RegistryTypes
<1>18. ASSUME DeleteSource(c) PROVE RegistryTypes'
  <2>1. call[c].source \in Sources
    BY <1>0, <1>18 DEF DeleteSource, StepWell, SourcePoints
  <2>2. QED
    BY <1>18, <1>7, <1>13, <2>1 DEF DeleteSource, RegistryTypes
<1>19. ASSUME Backfill(c) PROVE RegistryTypes'
  <2>1. call[c].agent \in Agents
    BY <1>0, <1>19 DEF Backfill, StepWell, AgentPoints
  <2>2. CASE Unbound = {}
    BY <1>19, <1>7, <2>2 DEF Backfill, RegistryTypes
  <2>3. CASE Unbound # {}
    <3>1. PICK d \in Unbound : source' = [source EXCEPT ![d].agent = call[c].agent] /\ Saved(d, TRUE)
      BY <1>19, <2>3 DEF Backfill
    <3>2. d \in Sources
      BY DEF Unbound
    <3>3. source' \in [Sources -> Entries]
      BY <2>1, <3>1, <3>2 DEF RegistryTypes, Entries
    <3>4. QED
      BY <1>19, <1>14, <2>3, <3>1, <3>2, <3>3 DEF Backfill, RegistryTypes
  <2>4. QED
    BY <2>2, <2>3
<1>20. QED
  BY <1>1, <1>2, <1>3, <1>4, <1>5, <1>6, <1>8, <1>9, <1>10, <1>11, <1>12, <1>15, <1>16, <1>17,
     <1>18, <1>19 DEF Handle

LEMMA RegistryTypesKept ==
    ASSUME RegistryTypes, RegistryStep
    PROVE  RegistryTypes'
<1> USE IdleWell, RegistryAssumption
<1>1. ASSUME NEW u \in Urls, Move(u) PROVE RegistryTypes'
  BY <1>1 DEF Move, rows, ghosts, RegistryTypes
<1>2. ASSUME Migrate PROVE RegistryTypes'
  <2>1. CASE \E a \in Agents : agent[a].there
    BY <1>2, <2>1 DEF Migrate, ghosts, RegistryTypes
  <2>2. CASE ~\E a \in Agents : agent[a].there
    <3>1. PICK a \in Agents : \E c \in Callers :
              /\ agent' = [agent EXCEPT ![a] = [NoRow EXCEPT !.there = TRUE]]
              /\ Becomes(c, [Idle EXCEPT !.at = "backfilling", !.agent = a])
              /\ phase' = "backfilling"
      BY <1>2, <2>2 DEF Migrate
    <3>2. [NoRow EXCEPT !.there = TRUE] \in Rows
      BY DEF NoRow, Rows
    <3> DEFINE step == [Idle EXCEPT !.at = "backfilling", !.agent = a]
    <3>3. step \in Steps /\ StepWell(step)
      BY DEF Steps, StepWell, Idle, Points, AgentPoints, SourcePoints
    <3> HIDE DEF step
    <3>4. call' \in [Callers -> {s \in Steps : StepWell(s)}]
      BY <3>1, <3>3, BecomesTyped DEF step
    <3>5. agent' \in [Agents -> Rows] /\ phase' = "backfilling"
      BY <3>1, <3>2 DEF RegistryTypes
    <3>6. QED
      BY <1>2, <3>4, <3>5 DEF Migrate, ghosts, RegistryTypes
  <2>3. QED
    BY <2>1, <2>2
<1>3. ASSUME Restart PROVE RegistryTypes'
  BY <1>3 DEF Restart, rows, RegistryTypes
<1>4. ASSUME UNCHANGED registryVars PROVE RegistryTypes'
  BY <1>4 DEF registryVars, rows, ghosts, RegistryTypes
<1>5. QED
  BY <1>1, <1>2, <1>3, <1>4, HandlerKeepsTypes DEF RegistryStep, RegistryNext

-----------------------------------------------------------------------------
(* Phases *)

\* Only a parent that is up takes a handler's step, the filling in of agents excepted.
LEMMA HandlerServes ==
    ASSUME RegistryTypes, PhaseInv, NEW c \in Callers, Handle(c), ~Backfill(c)
    PROVE  /\ phase = "up" /\ phase' = "up" /\ cut' = cut
           /\ call'[c].at # "backfilling"
           /\ \A e \in Callers \ {c} : call'[e] = call[e]
<1> DEFINE Goal == /\ phase = "up" /\ phase' = "up" /\ cut' = cut
                   /\ call'[c].at # "backfilling"
                   /\ \A e \in Callers \ {c} : call'[e] = call[e]
<1>0. call \in [Callers -> Steps]
  BY DEF RegistryTypes
<1>a. call[c].at \notin {"idle", "backfilling"} => phase = "up"
  BY DEF PhaseInv
<1>1. ASSUME NEW u \in Urls, NEW a, AskAgent(c, a, u) PROVE Goal
  <2>1. CASE who[u] = Nobody
    BY <1>0, <1>1, <2>1 DEF AskAgent, Done, Serve, Idle, ghosts, Becomes
  <2>2. CASE who[u] # Nobody
    BY <1>0, <1>1, <2>2 DEF AskAgent, Serve, Idle, ghosts, Becomes
  <2>3. QED
    BY <2>1, <2>2
<1>2. ASSUME NEW a \in Agents, BeginProbe(c, a) PROVE Goal
  BY <1>0, <1>2 DEF BeginProbe, Serve, Idle, ghosts, Becomes
<1>3. ASSUME NEW a \in Agents, AskDeleteAgent(c, a) PROVE Goal
  BY <1>0, <1>3 DEF AskDeleteAgent, Serve, Idle, ghosts, Becomes
<1>4. ASSUME NEW a \in Agents, NEW d \in Sources, NEW s, AskSave(c, d, a, s) PROVE Goal
  BY <1>0, <1>4 DEF AskSave, Serve, Idle, ghosts, Becomes
<1>5. ASSUME NEW d \in Sources, AskDeleteSource(c, d) PROVE Goal
  BY <1>0, <1>5 DEF AskDeleteSource, Serve, Idle, ghosts, Becomes
<1>6. ASSUME NEW t \in Tasks, NEW d, SaveTask(c, t, d) PROVE Goal
  BY <1>6 DEF SaveTask, Serve
<1>7. ASSUME Register(c) \/ UpdateAgent(c) PROVE Goal
  BY <1>0, <1>a, <1>7 DEF Register, UpdateAgent, Done, Idle, ghosts, Becomes
<1>8. ASSUME Probe(c) PROVE Goal
  <2>1. call'[c].at = "recording"
    BY <1>0, <1>8, CallWell DEF Probe, Steps, Becomes
  <2>2. QED
    BY <1>0, <1>a, <1>8, <2>1 DEF Probe, ghosts, Becomes
<1>9. ASSUME RecordProbe(c) PROVE Goal
  BY <1>0, <1>a, <1>9 DEF RecordProbe, Done, Idle, ghosts, Becomes
<1>14. ASSUME DeleteAgent(c) PROVE Goal
  BY <1>0, <1>a, <1>14 DEF DeleteAgent, Done, Idle, ghosts, Becomes
<1>10. ASSUME ReadSource(c) PROVE Goal
  <2>1. call'[c].at \in {"idle", "writing"}
    <3>1. CASE source[call[c].source].there
      <4>1. Becomes(c, [call[c] EXCEPT !.at = "writing", !.kept = source[call[c].source].secret])
        BY <1>10, <3>1 DEF ReadSource
      <4>2. call[c] \in Steps
        BY <1>0
      <4>3. QED
        BY <1>0, <4>1, <4>2 DEF Steps, Becomes
    <3>2. CASE ~source[call[c].source].there
      BY <1>0, <1>10, <3>2 DEF ReadSource, Done, Idle, Becomes
    <3>3. QED
      BY <3>1, <3>2
  <2>2. QED
    BY <1>0, <1>a, <1>10, <2>1 DEF ReadSource, Done, ghosts, Becomes
<1>11. ASSUME CreateSource(c) PROVE Goal
  BY <1>0, <1>a, <1>11 DEF CreateSource, Done, Idle, Becomes
<1>12. ASSUME WriteSource(c) PROVE Goal
  BY <1>0, <1>a, <1>12 DEF WriteSource, Done, Idle, Becomes
<1>13. ASSUME DeleteSource(c) PROVE Goal
  BY <1>0, <1>a, <1>13 DEF DeleteSource, Done, Idle, Becomes
<1>15. QED
  BY <1>1, <1>2, <1>3, <1>4, <1>5, <1>6, <1>7, <1>8, <1>9, <1>10, <1>11, <1>12, <1>13, <1>14 DEF Handle

LEMMA PhasesKept ==
    ASSUME RegistryTypes, PhaseInv, RegistryStep
    PROVE  PhaseInv'
<1>1. ASSUME NEW c \in Callers, Handle(c), ~Backfill(c) PROVE PhaseInv'
  BY <1>1, HandlerServes DEF PhaseInv
<1>2. ASSUME NEW c \in Callers, Backfill(c) PROVE PhaseInv'
  <2>1. CASE Unbound = {}
    <3>1. phase' = "up" /\ call'[c] = Idle /\ \A e \in Callers \ {c} : call'[e] = call[e]
      BY <1>2, <2>1, BecomesMove DEF Backfill, Done
    <3>2. \A e \in Callers \ {c} : call[e].at = "idle"
      BY <1>2 DEF Backfill, PhaseInv
    <3>3. \A e \in Callers : call'[e].at = "idle"
      BY <3>1, <3>2 DEF Idle
    <3>4. QED
      BY <3>1, <3>3 DEF PhaseInv
  <2>2. CASE Unbound # {}
    BY <1>2, <2>2 DEF Backfill, PhaseInv
  <2>3. QED
    BY <2>1, <2>2
<1>3. ASSUME NEW u \in Urls, Move(u) PROVE PhaseInv'
  BY <1>3 DEF Move, rows, PhaseInv
<1>4. ASSUME Migrate PROVE PhaseInv'
  <2>0. \A e \in Callers : call[e].at = "idle"
    BY <1>4 DEF Migrate, PhaseInv
  <2>1. CASE \E a \in Agents : agent[a].there
    BY <1>4, <2>0, <2>1 DEF Migrate, PhaseInv
  <2>2. CASE ~\E a \in Agents : agent[a].there
    <3>1. PICK a \in Agents : \E c \in Callers :
              /\ agent' = [agent EXCEPT ![a] = [NoRow EXCEPT !.there = TRUE]]
              /\ Becomes(c, [Idle EXCEPT !.at = "backfilling", !.agent = a])
              /\ phase' = "backfilling"
      BY <1>4, <2>2 DEF Migrate
    <3>2. PICK c \in Callers :
              /\ agent' = [agent EXCEPT ![a] = [NoRow EXCEPT !.there = TRUE]]
              /\ Becomes(c, [Idle EXCEPT !.at = "backfilling", !.agent = a])
              /\ phase' = "backfilling"
      BY <3>1
    <3>3. agent'[a].there
      BY <3>2 DEF RegistryTypes, NoRow
    <3>4. call'[c].at = "backfilling" /\ call'[c].agent = a /\ \A e \in Callers \ {c} : call'[e].at = "idle"
      BY <3>2, <2>0 DEF Idle, Becomes, RegistryTypes, Steps
    <3>5. QED
      BY <3>2, <3>3, <3>4 DEF PhaseInv
  <2>3. QED
    BY <2>1, <2>2
<1>5. ASSUME Restart PROVE PhaseInv'
  BY <1>5 DEF Restart, PhaseInv, Idle
<1>6. ASSUME UNCHANGED registryVars PROVE PhaseInv'
  BY <1>6 DEF registryVars, rows, PhaseInv
<1>7. QED
  BY <1>1, <1>2, <1>3, <1>4, <1>5, <1>6 DEF RegistryStep, RegistryNext, Handle

-----------------------------------------------------------------------------
(* Identities *)

\* What a row must be for PinTrue.
RowTrue(row) ==
    /\ row.pin # Nobody => <<row.url, row.pin>> \in heard
    /\ row.told \in {Nobody, row.pin}
    /\ row.status = "online" => row.pin # Nobody

\* Whatever has been heard stays heard.
LEMMA HeardGrows == RegistryTypes /\ RegistryStep => heard \subseteq heard'
<1> SUFFICES ASSUME RegistryTypes, RegistryStep PROVE heard \subseteq heard'
  OBVIOUS
<1>1. ASSUME NEW c \in Callers, Handle(c) PROVE heard \subseteq heard'
  BY <1>1 DEF Handle, AskAgent, Ask, BeginProbe, AskDeleteAgent, AskSave, AskDeleteSource, SaveTask,
     Register, UpdateAgent, Probe, RecordProbe, DeleteAgent, CreateSource, ReadSource, WriteSource,
     DeleteSource, Backfill
<1>2. QED
  BY <1>1 DEF RegistryStep, RegistryNext, Move, Migrate, Restart, registryVars

\* How the threads' answers change: those of the others not at all.
LEMMA AnswersKept ==
    ASSUME RegistryTypes, PinInv, NEW c \in Callers, heard \subseteq heard',
           call'[c].at \in {"registering", "updating"} => <<call'[c].url, call'[c].info>> \in heard',
           call'[c].at = "recording" /\ call'[c].info # Nobody => <<call'[c].url, call'[c].info>> \in heard',
           \A e \in Callers \ {c} : call'[e] = call[e]
    PROVE  AnswersHeard'
BY DEF PinInv, AnswersHeard

\* Rows that keep their address and are not unpinned keep FirstAnswer.
LEMMA FirstAnswerKept ==
    ASSUME RegistryTypes', PinInv, NEW c \in Callers,
           \A e \in Callers \ {c} : call'[e] = call[e],
           call'[c].at \in {"asking", "recording"} /\ agent'[call'[c].agent].there /\ agent'[call'[c].agent].pin = Nobody
               => call'[c].url = agent'[call'[c].agent].url,
           \A a \in Agents : agent'[a].there /\ agent'[a].pin = Nobody =>
               agent[a].there /\ agent[a].pin = Nobody /\ agent'[a].url = agent[a].url
    PROVE  FirstAnswer'
<1>1. ASSUME NEW e \in Callers \ {c}, call[e].at \in {"asking", "recording"},
             agent'[call[e].agent].there, agent'[call[e].agent].pin = Nobody
      PROVE  call[e].url = agent'[call[e].agent].url
  <2>1. call[e].agent \in Agents
    BY <1>1 DEF RegistryTypes, StepWell, AgentPoints
  <2>2. QED
    BY <1>1, <2>1 DEF PinInv, FirstAnswer
<1>2. QED
  BY <1>1 DEF FirstAnswer

LEMMA PinTrueKept ==
    ASSUME PinInv, heard \subseteq heard', \A a \in Agents : agent'[a].there =>
               (agent[a].there /\ agent'[a] = agent[a]) \/ RowTrue(agent'[a])
    PROVE  PinTrue'
BY DEF PinInv, PinTrue, RowTrue

LEMMA PinsKeptByHandlers ==
    ASSUME RegistryTypes, RegistryTypes', PinInv, heard \subseteq heard', NEW c \in Callers, Handle(c)
    PROVE  PinInv'
<1> USE RegistryAssumption
<1>0. call \in [Callers -> Steps] /\ call[c] \in Steps /\ StepWell(call[c])
  BY DEF RegistryTypes
<1>s. ASSUME agent' = agent, \A e \in Callers \ {c} : call'[e] = call[e],
             call'[c].at \in {"registering", "updating"} => <<call'[c].url, call'[c].info>> \in heard',
             call'[c].at = "recording" /\ call'[c].info # Nobody => <<call'[c].url, call'[c].info>> \in heard',
             call'[c].at \in {"asking", "recording"} => call'[c].agent \in Agents /\
                 (agent[call'[c].agent].there /\ agent[call'[c].agent].pin = Nobody
                     => call'[c].url = agent[call'[c].agent].url)
      PROVE  PinInv'
  <2>1. AnswersHeard'
    BY <1>s, AnswersKept
  <2>2. FirstAnswer'
    BY <1>s, FirstAnswerKept
  <2>3. PinTrue'
    BY <1>s, PinTrueKept
  <2>4. QED
    BY <2>1, <2>2, <2>3 DEF PinInv
<1>t. ASSUME agent' = agent, \A e \in Callers \ {c} : call'[e] = call[e],
             call'[c].at \notin {"registering", "updating", "asking", "recording"}
      PROVE  PinInv'
  BY <1>s, <1>t
<1>1. ASSUME NEW u \in Urls, NEW a, AskAgent(c, a, u) PROVE PinInv'
  <2>1. CASE who[u] = Nobody
    <3>1. call'[c].at = "idle" /\ \A e \in Callers \ {c} : call'[e] = call[e]
      BY <1>0, <1>1, <2>1 DEF AskAgent, Done, Becomes, Idle
    <3>2. QED
      BY <1>1, <1>t, <3>1 DEF AskAgent, rows
  <2>2. CASE who[u] # Nobody
    <3>1. /\ call'[c].at \in {"registering", "updating"} /\ call'[c].url = u /\ call'[c].info = who[u]
          /\ \A e \in Callers \ {c} : call'[e] = call[e]
      <4>1. Becomes(c, [Idle EXCEPT !.at = IF a = NoAgent THEN "registering" ELSE "updating",
                                    !.agent = a, !.url = u, !.info = who[u]])
        BY <1>1, <2>2 DEF AskAgent
      <4>2. QED
        BY <1>0, <4>1 DEF Becomes, Idle
    <3>2. <<u, who[u]>> \in heard'
      BY <1>1, <2>2 DEF AskAgent, Ask, RegistryTypes
    <3>3. QED
      BY <1>1, <1>s, <3>1, <3>2 DEF AskAgent, rows
  <2>3. QED
    BY <2>1, <2>2
<1>2. ASSUME NEW a \in Agents, BeginProbe(c, a) PROVE PinInv'
  <2>1. /\ call'[c].at = "asking" /\ call'[c].agent = a /\ call'[c].url = agent[a].url
        /\ \A e \in Callers \ {c} : call'[e] = call[e]
    BY <1>0, <1>2 DEF BeginProbe, Becomes, Idle
  <2>2. QED
    BY <1>2, <1>s, <2>1 DEF BeginProbe, rows
<1>3. ASSUME NEW a \in Agents, AskDeleteAgent(c, a) PROVE PinInv'
  <2>1. call'[c].at = "deleting agent" /\ \A e \in Callers \ {c} : call'[e] = call[e]
    BY <1>0, <1>3 DEF AskDeleteAgent, Becomes, Idle
  <2>2. QED
    BY <1>3, <1>t, <2>1 DEF AskDeleteAgent, rows
<1>4. ASSUME NEW a \in Agents, NEW d \in Sources, NEW s, AskSave(c, d, a, s) PROVE PinInv'
  <2>1. call'[c].at \in {"reading", "creating"} /\ \A e \in Callers \ {c} : call'[e] = call[e]
    BY <1>0, <1>4 DEF AskSave, Becomes, Idle
  <2>2. QED
    BY <1>4, <1>t, <2>1 DEF AskSave, rows
<1>5. ASSUME NEW d \in Sources, AskDeleteSource(c, d) PROVE PinInv'
  <2>1. call'[c].at = "deleting source" /\ \A e \in Callers \ {c} : call'[e] = call[e]
    BY <1>0, <1>5 DEF AskDeleteSource, Becomes, Idle
  <2>2. QED
    BY <1>5, <1>t, <2>1 DEF AskDeleteSource, rows
<1>6. ASSUME NEW t \in Tasks, NEW d, SaveTask(c, t, d) PROVE PinInv'
  <2>1. call[c].at = "idle" /\ call' = call /\ agent' = agent
    BY <1>6 DEF SaveTask, Serve
  <2>2. QED
    BY <1>t, <2>1
<1>7. ASSUME Done(c)
      PROVE  call'[c].at = "idle" /\ \A e \in Callers \ {c} : call'[e] = call[e]
  BY <1>0, <1>7 DEF Done, Becomes, Idle
\* A row that is registered, or moved, gets the identity that answered at its address.
<1>8. ASSUME NEW a \in Agents, Done(c), <<call[c].url, call[c].info>> \in heard,
             agent'[a] = Seen(call[c].url, call[c].info) \/ agent'[a] = agent[a],
             \A b \in Agents \ {a} : agent'[b] = agent[b]
      PROVE  PinInv'
  <2>1. Seen(call[c].url, call[c].info).pin # Nobody /\ RowTrue(Seen(call[c].url, call[c].info))
    BY <1>8 DEF Seen, RowTrue, RegistryTypes
  <2>2. AnswersHeard'
    BY <1>8, <1>7, AnswersKept
  <2>3. FirstAnswer'
    BY <1>8, <1>7, <2>1, FirstAnswerKept
  <2>4. PinTrue'
    BY <1>8, <2>1, PinTrueKept
  <2>5. QED
    BY <2>2, <2>3, <2>4 DEF PinInv
<1>9. ASSUME Register(c) PROVE PinInv'
  <2>1. PICK a \in Agents : agent' = [agent EXCEPT ![a] = Seen(call[c].url, call[c].info)]
    BY <1>9 DEF Register
  <2>2. <<call[c].url, call[c].info>> \in heard
    BY <1>9 DEF Register, PinInv, AnswersHeard
  <2>3. QED
    BY <1>8, <1>9, <2>1, <2>2 DEF Register, RegistryTypes
<1>10. ASSUME UpdateAgent(c) PROVE PinInv'
  <2>1. call[c].agent \in Agents
    BY <1>0, <1>10 DEF UpdateAgent, StepWell, AgentPoints
  <2>2. <<call[c].url, call[c].info>> \in heard
    BY <1>10 DEF UpdateAgent, PinInv, AnswersHeard
  <2>3. QED
    BY <1>8, <1>10, <2>1, <2>2 DEF UpdateAgent, RegistryTypes
<1>11. ASSUME Probe(c) PROVE PinInv'
  <2>1. /\ call'[c].at = "recording" /\ call'[c].url = call[c].url /\ call'[c].agent = call[c].agent
        /\ call'[c].info = who[call[c].url]
        /\ \A e \in Callers \ {c} : call'[e] = call[e]
    BY <1>0, <1>11 DEF Probe, Becomes, Steps
  <2>2. who[call[c].url] # Nobody => <<call[c].url, who[call[c].url]>> \in heard'
    BY <1>0, <1>11 DEF Probe, Ask, RegistryTypes, Steps
  <2>3. call[c].agent \in Agents
    BY <1>0, <1>11 DEF Probe, StepWell, AgentPoints
  <2>4. call[c].at = "asking" /\ agent' = agent
    BY <1>11 DEF Probe, rows
  <2>5. QED
    BY <1>s, <2>1, <2>2, <2>3, <2>4 DEF PinInv, FirstAnswer
<1>12. ASSUME RecordProbe(c) PROVE PinInv'
  <2> DEFINE a == call[c].agent
             x == call[c].info
  <2>1. a \in Agents /\ x \in Instances \cup {Nobody} /\ Done(c)
    BY <1>0, <1>12 DEF RecordProbe, StepWell, AgentPoints, Steps
  <2>2. agent[a] \in Rows
    BY <2>1 DEF RegistryTypes
  <2>3. \A b \in Agents \ {a} : agent'[b] = agent[b]
    BY <1>12 DEF RecordProbe, RegistryTypes
  <2>4. agent'[a] = IF agent[a].there THEN AfterProbe(agent[a], x) ELSE agent[a]
    BY <1>12, <2>1 DEF RecordProbe, RegistryTypes
  <2>5. x # Nobody => <<call[c].url, x>> \in heard
    BY <1>12 DEF RecordProbe, PinInv, AnswersHeard
  <2>6. agent[a].there /\ agent[a].pin = Nobody => call[c].url = agent[a].url
    BY <1>12 DEF RecordProbe, PinInv, FirstAnswer
  <2>7. agent[a].there => RowTrue(agent[a])
    BY <2>1 DEF PinInv, PinTrue, RowTrue
  <2> HIDE DEF a, x
  <2>8. agent[a].there => RowTrue(AfterProbe(agent[a], x))
    BY <2>1, <2>2, <2>5, <2>6, <2>7, AfterProbeDoes DEF RowTrue
  <2>9. agent[a].there /\ AfterProbe(agent[a], x).pin = Nobody => agent[a].pin = Nobody
    BY <2>1, <2>2, AfterProbeDoes
  <2>10. agent[a].there => AfterProbe(agent[a], x).url = agent[a].url
    BY <2>1, <2>2, AfterProbeDoes
  <2>11. AnswersHeard'
    BY <1>7, <2>1, AnswersKept
  <2>12. FirstAnswer'
    BY <1>7, <2>1, <2>3, <2>4, <2>9, <2>10, FirstAnswerKept
  <2>13. PinTrue'
    BY <2>1, <2>3, <2>4, <2>8, PinTrueKept
  <2>14. QED
    BY <2>11, <2>12, <2>13 DEF PinInv
<1>13. ASSUME DeleteAgent(c) PROVE PinInv'
  <2>1. \A a \in Agents : agent'[a] = agent[a] \/ ~agent'[a].there
    BY <1>13 DEF DeleteAgent, NoRow, RegistryTypes
  <2>2. Done(c)
    BY <1>13 DEF DeleteAgent
  <2>3. AnswersHeard'
    BY <1>7, <2>2, AnswersKept
  <2>4. FirstAnswer'
    BY <1>7, <2>1, <2>2, FirstAnswerKept
  <2>5. PinTrue'
    BY <2>1, PinTrueKept
  <2>6. QED
    BY <2>3, <2>4, <2>5 DEF PinInv
<1>14. ASSUME CreateSource(c) PROVE PinInv'
  BY <1>14, <1>7, <1>t DEF CreateSource
<1>15. ASSUME WriteSource(c) PROVE PinInv'
  BY <1>15, <1>7, <1>t DEF WriteSource
<1>16. ASSUME DeleteSource(c) PROVE PinInv'
  BY <1>16, <1>7, <1>t DEF DeleteSource
<1>17. ASSUME ReadSource(c) PROVE PinInv'
  <2>1. call'[c].at \in {"idle", "writing"} /\ \A e \in Callers \ {c} : call'[e] = call[e]
    <3>1. CASE source[call[c].source].there
      <4>1. Becomes(c, [call[c] EXCEPT !.at = "writing", !.kept = source[call[c].source].secret])
        BY <1>17, <3>1 DEF ReadSource
      <4>2. QED
        BY <1>0, <4>1 DEF Steps, Becomes
    <3>2. CASE ~source[call[c].source].there
      BY <1>17, <1>7, <3>2 DEF ReadSource
    <3>3. QED
      BY <3>1, <3>2
  <2>2. QED
    BY <1>17, <1>t, <2>1 DEF ReadSource, rows
<1>18. ASSUME Backfill(c) PROVE PinInv'
  <2>1. CASE Unbound = {}
    BY <1>18, <1>7, <1>t, <2>1 DEF Backfill
  <2>2. CASE Unbound # {}
    BY <1>18, <1>t, <2>2 DEF Backfill
  <2>3. QED
    BY <2>1, <2>2
<1>19. QED
  BY <1>1, <1>2, <1>3, <1>4, <1>5, <1>6, <1>9, <1>10, <1>11, <1>12, <1>13, <1>14, <1>15, <1>16,
     <1>17, <1>18 DEF Handle

LEMMA PinsKept ==
    ASSUME RegistryTypes, RegistryTypes', PhaseInv, PinInv, RegistryStep
    PROVE  PinInv'
<1>0. heard \subseteq heard'
  BY HeardGrows
<1>1. ASSUME NEW c \in Callers, Handle(c) PROVE PinInv'
  BY <1>0, <1>1, PinsKeptByHandlers
<1>2. ASSUME NEW u \in Urls, Move(u) PROVE PinInv'
  BY <1>2 DEF Move, rows, PinInv, PinTrue, AnswersHeard, FirstAnswer
<1>3. ASSUME Migrate PROVE PinInv'
  <2>0. \A e \in Callers : call[e].at = "idle"
    BY <1>3 DEF Migrate, PhaseInv
  <2>1. CASE \E a \in Agents : agent[a].there
    BY <1>3, <2>1 DEF Migrate, PinInv, PinTrue, AnswersHeard, FirstAnswer
  <2>2. CASE ~\E a \in Agents : agent[a].there
    <3>1. PICK a \in Agents : \E c \in Callers :
              /\ agent' = [agent EXCEPT ![a] = [NoRow EXCEPT !.there = TRUE]]
              /\ Becomes(c, [Idle EXCEPT !.at = "backfilling", !.agent = a])
      BY <1>3, <2>2 DEF Migrate
    <3>2. \A e \in Callers : call'[e].at \in {"idle", "backfilling"}
      BY <3>1, <2>0 DEF Becomes, Idle, RegistryTypes, Steps
    <3>3. PinTrue'
      <4>1. agent'[a] = [NoRow EXCEPT !.there = TRUE] /\ \A b \in Agents \ {a} : agent'[b] = agent[b]
        BY <3>1 DEF RegistryTypes
      <4>2. RowTrue([NoRow EXCEPT !.there = TRUE])
        BY DEF NoRow, RowTrue
      <4>3. QED
        BY <1>0, <4>1, <4>2, PinTrueKept
    <3>4. QED
      BY <3>2, <3>3 DEF PinInv, AnswersHeard, FirstAnswer
  <2>3. QED
    BY <2>1, <2>2
<1>4. ASSUME Restart PROVE PinInv'
  <2>1. \A e \in Callers : call'[e].at = "idle"
    BY <1>4 DEF Restart, Idle
  <2>2. PinTrue'
    BY <1>4 DEF Restart, rows, PinInv, PinTrue
  <2>3. QED
    BY <2>1, <2>2 DEF PinInv, AnswersHeard, FirstAnswer
<1>5. ASSUME UNCHANGED registryVars PROVE PinInv'
  BY <1>5 DEF registryVars, rows, PinInv, PinTrue, AnswersHeard, FirstAnswer
<1>6. QED
  BY <1>1, <1>2, <1>3, <1>4, <1>5 DEF RegistryStep, RegistryNext

-----------------------------------------------------------------------------
(* References *)

\* The steps that leave alone what the references are made of.
LEMMA HandlerReferences ==
    ASSUME RegistryTypes, RegistryTypes', NEW c \in Callers, Handle(c)
    PROVE  \/ \E a \in Agents : AskDeleteAgent(c, a)
           \/ \E d \in Sources : AskDeleteSource(c, d)
           \/ \E t \in Tasks, d \in Sources \cup {NoSource} : SaveTask(c, t, d)
           \/ DeleteAgent(c) \/ CreateSource(c) \/ WriteSource(c) \/ DeleteSource(c) \/ Backfill(c)
           \/ /\ source' = source /\ target' = target /\ sound' = sound
              /\ \A a \in Agents : agent[a].there => agent'[a].there
              /\ call'[c].at \notin {"deleting agent", "deleting source"}
              /\ \A e \in Callers \ {c} : call'[e] = call[e]
<1> DEFINE Quiet == /\ source' = source /\ target' = target /\ sound' = sound
                    /\ \A a \in Agents : agent[a].there => agent'[a].there
                    /\ call'[c].at \notin {"deleting agent", "deleting source"}
                    /\ \A e \in Callers \ {c} : call'[e] = call[e]
<1>0. call \in [Callers -> Steps] /\ call[c] \in Steps /\ StepWell(call[c])
  BY DEF RegistryTypes
<1>d. ASSUME Done(c)
      PROVE  call'[c].at = "idle" /\ \A e \in Callers \ {c} : call'[e] = call[e]
  BY <1>0, <1>d DEF Done, Becomes, Idle
<1>1. ASSUME NEW u \in Urls, NEW a, AskAgent(c, a, u) PROVE Quiet
  <2>1. CASE who[u] = Nobody
    BY <1>1, <1>d, <2>1 DEF AskAgent, rows, ghosts
  <2>2. CASE who[u] # Nobody
    <3>1. Becomes(c, [Idle EXCEPT !.at = IF a = NoAgent THEN "registering" ELSE "updating",
                                  !.agent = a, !.url = u, !.info = who[u]])
      BY <1>1, <2>2 DEF AskAgent
    <3>2. call'[c].at \in {"registering", "updating"} /\ \A e \in Callers \ {c} : call'[e] = call[e]
      BY <1>0, <3>1 DEF Becomes, Idle
    <3>3. QED
      BY <1>1, <3>2 DEF AskAgent, rows, ghosts
  <2>3. QED
    BY <2>1, <2>2
<1>2. ASSUME NEW a \in Agents, BeginProbe(c, a) PROVE Quiet
  BY <1>0, <1>2 DEF BeginProbe, Becomes, Idle, rows, ghosts
<1>3. ASSUME NEW a \in Agents, NEW d \in Sources, NEW s, AskSave(c, d, a, s) PROVE Quiet
  BY <1>0, <1>3 DEF AskSave, Becomes, Idle, rows, ghosts
<1>4. ASSUME Register(c) PROVE Quiet
  <2>1. PICK a \in Agents : agent' = [agent EXCEPT ![a] = Seen(call[c].url, call[c].info)]
    BY <1>4 DEF Register
  <2>2. \A b \in Agents : agent[b].there => agent'[b].there
    BY <2>1 DEF RegistryTypes, Seen
  <2>3. QED
    BY <1>4, <1>d, <2>2 DEF Register, ghosts
<1>5. ASSUME UpdateAgent(c) PROVE Quiet
  <2>1. \A b \in Agents : agent[b].there => agent'[b].there
    BY <1>5 DEF UpdateAgent, RegistryTypes, Seen
  <2>2. QED
    BY <1>5, <1>d, <2>1 DEF UpdateAgent, ghosts
<1>6. ASSUME Probe(c) PROVE Quiet
  BY <1>0, <1>6 DEF Probe, Becomes, Steps, rows, ghosts
<1>7. ASSUME RecordProbe(c) PROVE Quiet
  <2>1. call[c].info \in Instances \cup {Nobody} /\ \A b \in Agents : agent[b] \in Rows
    BY <1>0 DEF RegistryTypes, Steps
  <2>2. \A b \in Agents : agent'[b] \in {agent[b], AfterProbe(agent[b], call[c].info)}
    BY <1>7 DEF RecordProbe, RegistryTypes
  <2>3. \A b \in Agents : agent[b].there => agent'[b].there
    BY <2>1, <2>2, AfterProbeDoes
  <2>4. QED
    BY <1>7, <1>d, <2>3 DEF RecordProbe, ghosts
<1>8. ASSUME ReadSource(c) PROVE Quiet
  <2>1. call'[c].at \in {"idle", "writing"} /\ \A e \in Callers \ {c} : call'[e] = call[e]
    <3>1. CASE source[call[c].source].there
      <4>1. Becomes(c, [call[c] EXCEPT !.at = "writing", !.kept = source[call[c].source].secret])
        BY <1>8, <3>1 DEF ReadSource
      <4>2. QED
        BY <1>0, <4>1 DEF Steps, Becomes
    <3>2. CASE ~source[call[c].source].there
      BY <1>8, <1>d, <3>2 DEF ReadSource
    <3>3. QED
      BY <3>1, <3>2
  <2>2. QED
    BY <1>8, <2>1 DEF ReadSource, rows, ghosts
<1>9. QED
  BY <1>1, <1>2, <1>3, <1>4, <1>5, <1>6, <1>7, <1>8 DEF Handle

LEMMA SourcesReferKept ==
    ASSUME SourcesRefer,
           \A d \in Sources : source'[d].there /\ d \in sound' =>
               \/ source[d].there /\ d \in sound /\ source'[d].agent = source[d].agent
               \/ /\ source'[d].agent \in Agents /\ agent'[source'[d].agent].there
                  /\ \A e \in Callers : ~(call'[e].at = "deleting agent" /\ call'[e].agent = source'[d].agent),
           \A a \in Agents : agent[a].there =>
               agent'[a].there \/ \E e \in Callers : call[e].at = "deleting agent" /\ call[e].agent = a,
           \A e \in Callers : call'[e].at = "deleting agent" =>
               \/ call[e].at = "deleting agent" /\ call'[e].agent = call[e].agent
               \/ \A d \in Sources : source[d].there => source[d].agent # call'[e].agent
    PROVE  SourcesRefer'
<1> SUFFICES ASSUME NEW d \in Sources, source'[d].there, d \in sound'
             PROVE  /\ source'[d].agent \in Agents /\ agent'[source'[d].agent].there
                    /\ \A c \in Callers : ~(call'[c].at = "deleting agent" /\ call'[c].agent = source'[d].agent)
  BY DEF SourcesRefer
<1>1. CASE source[d].there /\ d \in sound /\ source'[d].agent = source[d].agent
  <2>1. /\ source[d].agent \in Agents /\ agent[source[d].agent].there
        /\ \A c \in Callers : ~(call[c].at = "deleting agent" /\ call[c].agent = source[d].agent)
    BY <1>1 DEF SourcesRefer
  <2>2. agent'[source[d].agent].there
    BY <2>1
  <2>3. \A c \in Callers : ~(call'[c].at = "deleting agent" /\ call'[c].agent = source[d].agent)
    <3>1. ASSUME NEW c \in Callers, call'[c].at = "deleting agent", call'[c].agent = source[d].agent
          PROVE  FALSE
      <4>1. call[c].at = "deleting agent" /\ call'[c].agent = call[c].agent
        BY <1>1, <3>1
      <4>2. QED
        BY <2>1, <3>1, <4>1
    <3>2. QED
      BY <3>1
  <2>4. QED
    BY <1>1, <2>1, <2>2, <2>3
<1>2. QED
  BY <1>1

LEMMA TasksReferKept ==
    ASSUME TasksRefer, RegistryTypes,
           \A t \in Tasks : target'[t] # NoSource /\ t \in sound' =>
               \/ t \in sound /\ target'[t] = target[t]
               \/ /\ source'[target'[t]].there
                  /\ \A e \in Callers : ~(call'[e].at = "deleting source" /\ call'[e].source = target'[t]),
           \A d \in Sources : source[d].there =>
               source'[d].there \/ \E e \in Callers : call[e].at = "deleting source" /\ call[e].source = d,
           \A e \in Callers : call'[e].at = "deleting source" =>
               \/ call[e].at = "deleting source" /\ call'[e].source = call[e].source
               \/ \A t \in Tasks : target[t] # call'[e].source
    PROVE  TasksRefer'
<1> SUFFICES ASSUME NEW t \in Tasks, target'[t] # NoSource, t \in sound'
             PROVE  /\ source'[target'[t]].there
                    /\ \A c \in Callers : ~(call'[c].at = "deleting source" /\ call'[c].source = target'[t])
  BY DEF TasksRefer
<1>1. CASE t \in sound /\ target'[t] = target[t]
  <2>1. /\ source[target[t]].there
        /\ \A c \in Callers : ~(call[c].at = "deleting source" /\ call[c].source = target[t])
    BY <1>1 DEF TasksRefer
  <2>2. target[t] \in Sources
    BY <1>1 DEF RegistryTypes
  <2>3. source'[target[t]].there
    BY <2>1, <2>2
  <2>4. \A c \in Callers : ~(call'[c].at = "deleting source" /\ call'[c].source = target[t])
    <3>1. ASSUME NEW c \in Callers, call'[c].at = "deleting source", call'[c].source = target[t]
          PROVE  FALSE
      <4>1. call[c].at = "deleting source" /\ call'[c].source = call[c].source
        BY <3>1
      <4>2. QED
        BY <2>1, <3>1, <4>1
    <3>2. QED
      BY <3>1
  <2>5. QED
    BY <1>1, <2>1, <2>3, <2>4
<1>2. QED
  BY <1>1

LEMMA SavedOnly ==
    ASSUME NEW id, NEW ok, Saved(id, ok)
    PROVE  (id \in sound' => ok) /\ \A i : i # id => (i \in sound' <=> i \in sound)
BY DEF Saved

LEMMA ReferencesKeptByHandlers ==
    ASSUME RegistryTypes, RegistryTypes', PhaseInv, SourcesRefer, TasksRefer, NEW c \in Callers, Handle(c)
    PROVE  SourcesRefer' /\ TasksRefer'
<1> USE RegistryAssumption
<1>0. call \in [Callers -> Steps] /\ call[c] \in Steps /\ StepWell(call[c])
  BY DEF RegistryTypes
<1>d. ASSUME Done(c)
      PROVE  call'[c].at = "idle" /\ \A e \in Callers \ {c} : call'[e] = call[e]
  BY <1>0, <1>d DEF Done, Becomes, Idle
<1>1. ASSUME source' = source, target' = target, sound' = sound,
             \A a \in Agents : agent[a].there => agent'[a].there,
             call'[c].at \notin {"deleting agent", "deleting source"},
             \A e \in Callers \ {c} : call'[e] = call[e]
      PROVE  SourcesRefer' /\ TasksRefer'
  <2>1. SourcesRefer'
    BY <1>1, SourcesReferKept
  <2>2. TasksRefer'
    BY <1>1, TasksReferKept
  <2>3. QED
    BY <2>1, <2>2
<1>2. ASSUME NEW a \in Agents, AskDeleteAgent(c, a) PROVE SourcesRefer' /\ TasksRefer'
  <2>1. /\ call'[c].at = "deleting agent" /\ call'[c].agent = a
        /\ \A e \in Callers \ {c} : call'[e] = call[e]
    BY <1>0, <1>2 DEF AskDeleteAgent, Becomes, Idle
  <2>2. \A d \in Sources : source[d].there => source[d].agent # a
    BY <1>2 DEF AskDeleteAgent, Referring
  <2>3. agent' = agent /\ source' = source /\ target' = target /\ sound' = sound
    BY <1>2 DEF AskDeleteAgent, rows, ghosts
  <2>4. SourcesRefer'
    BY <2>1, <2>2, <2>3, SourcesReferKept
  <2>5. TasksRefer'
    BY <2>1, <2>3, TasksReferKept
  <2>6. QED
    BY <2>4, <2>5
<1>3. ASSUME NEW d \in Sources, AskDeleteSource(c, d) PROVE SourcesRefer' /\ TasksRefer'
  <2>1. /\ call'[c].at = "deleting source" /\ call'[c].source = d
        /\ \A e \in Callers \ {c} : call'[e] = call[e]
    BY <1>0, <1>3 DEF AskDeleteSource, Becomes, Idle
  <2>2. \A t \in Tasks : target[t] # d
    BY <1>3 DEF AskDeleteSource
  <2>3. agent' = agent /\ source' = source /\ target' = target /\ sound' = sound
    BY <1>3 DEF AskDeleteSource, rows, ghosts
  <2>4. SourcesRefer'
    BY <2>1, <2>3, SourcesReferKept
  <2>5. TasksRefer'
    BY <2>1, <2>2, <2>3, TasksReferKept
  <2>6. QED
    BY <2>4, <2>5
<1>4. ASSUME NEW t \in Tasks, NEW d \in Sources \cup {NoSource}, SaveTask(c, t, d)
      PROVE  SourcesRefer' /\ TasksRefer'
  <2>1. agent' = agent /\ source' = source /\ call' = call
    BY <1>4 DEF SaveTask
  <2>2. target'[t] = d /\ \A z \in Tasks \ {t} : target'[z] = target[z]
    BY <1>4 DEF SaveTask, RegistryTypes
  <2>3. /\ t \in sound' => d \in Sources /\ source[d].there /\ ~Deleting("deleting source", "source", d)
        /\ \A i : i # t => (i \in sound' <=> i \in sound)
    BY <1>4, SavedOnly DEF SaveTask
  <2>4. SourcesRefer'
    BY <2>1, <2>3, SourcesReferKept
  <2>5. t \in sound' => \A e \in Callers : ~(call'[e].at = "deleting source" /\ call'[e].source = d)
    BY <2>1, <2>3 DEF Deleting
  <2>6. TasksRefer'
    BY <2>1, <2>2, <2>3, <2>5, TasksReferKept
  <2>7. QED
    BY <2>4, <2>6
<1>5. ASSUME DeleteAgent(c) PROVE SourcesRefer' /\ TasksRefer'
  <2>1. \A e \in Callers \ {c} : call'[e] = call[e]
    BY <1>5, <1>d DEF DeleteAgent
  <2>2. call'[c].at = "idle" /\ source' = source /\ target' = target /\ sound' = sound
    BY <1>5, <1>d DEF DeleteAgent, ghosts
  <2>3. call[c].at = "deleting agent" /\ \A a \in Agents : a = call[c].agent \/ agent'[a] = agent[a]
    BY <1>5 DEF DeleteAgent, RegistryTypes
  <2>4. SourcesRefer'
    BY <2>1, <2>2, <2>3, SourcesReferKept
  <2>5. TasksRefer'
    BY <2>1, <2>2, TasksReferKept
  <2>6. QED
    BY <2>4, <2>5
\* A source that is written is sound only if its agent is there and stays.
<1>6. ASSUME NEW id \in Sources, NEW a, Saved(id, BoundWell(a)), Done(c), a \in Agents,
             agent' = agent, target' = target,
             \A d \in Sources : d # id => source'[d] = source[d],
             source[id].there => source'[id].there,
             source'[id].there => source'[id].agent = a
      PROVE  SourcesRefer' /\ TasksRefer'
  <2>1. (id \in sound' => BoundWell(a)) /\ \A i : i # id => (i \in sound' <=> i \in sound)
    BY <1>6, SavedOnly
  <2>2. id \in sound' => agent[a].there /\ \A e \in Callers : ~(call[e].at = "deleting agent" /\ call[e].agent = a)
    BY <2>1 DEF BoundWell, Deleting
  <2>3. call'[c].at = "idle" /\ \A e \in Callers \ {c} : call'[e] = call[e]
    BY <1>6, <1>d
  <2>4. id \in sound' => \A e \in Callers : ~(call'[e].at = "deleting agent" /\ call'[e].agent = a)
    BY <2>2, <2>3
  <2>5. SourcesRefer'
    BY <1>6, <2>1, <2>2, <2>3, <2>4, SourcesReferKept
  <2>6. \A d \in Sources : source[d].there => source'[d].there
    BY <1>6
  <2>7. \A t \in Tasks : t \in sound' <=> t \in sound
    BY <2>1
  <2>8. TasksRefer'
    BY <1>6, <2>3, <2>6, <2>7, TasksReferKept
  <2>9. QED
    BY <2>5, <2>8
<1>7. ASSUME CreateSource(c) PROVE SourcesRefer' /\ TasksRefer'
  <2>1. call[c].source \in Sources /\ call[c].agent \in Agents
    BY <1>0, <1>7 DEF CreateSource, StepWell, AgentPoints, SourcePoints
  <2>2. /\ \A d \in Sources : d # call[c].source => source'[d] = source[d]
        /\ source'[call[c].source].there /\ source'[call[c].source].agent = call[c].agent
    BY <1>7, <2>1 DEF CreateSource, RegistryTypes
  <2>3. QED
    BY <1>6, <1>7, <2>1, <2>2 DEF CreateSource
<1>8. ASSUME WriteSource(c) PROVE SourcesRefer' /\ TasksRefer'
  <2>1. call[c].source \in Sources /\ call[c].agent \in Agents
    BY <1>0, <1>8 DEF WriteSource, StepWell, AgentPoints, SourcePoints
  <2>2. /\ \A d \in Sources : d # call[c].source => source'[d] = source[d]
        /\ source'[call[c].source].there <=> source[call[c].source].there
        /\ source'[call[c].source].there => source'[call[c].source].agent = call[c].agent
    BY <1>8, <2>1 DEF WriteSource, RegistryTypes, Entries
  <2>3. QED
    BY <1>6, <1>8, <2>1, <2>2 DEF WriteSource
<1>9. ASSUME DeleteSource(c) PROVE SourcesRefer' /\ TasksRefer'
  <2>1. \A e \in Callers \ {c} : call'[e] = call[e]
    BY <1>9, <1>d DEF DeleteSource
  <2>2. call'[c].at = "idle" /\ agent' = agent /\ target' = target /\ sound' = sound
    BY <1>9, <1>d DEF DeleteSource
  <2>3. /\ call[c].at = "deleting source"
        /\ \A d \in Sources : (d = call[c].source /\ ~source'[d].there) \/ source'[d] = source[d]
    BY <1>9 DEF DeleteSource, RegistryTypes, NoEntry
  <2>4. SourcesRefer'
    BY <2>1, <2>2, <2>3, SourcesReferKept
  <2>5. TasksRefer'
    BY <2>1, <2>2, <2>3, TasksReferKept
  <2>6. QED
    BY <2>4, <2>5
<1>10. ASSUME Backfill(c) PROVE SourcesRefer' /\ TasksRefer'
  <2>1. CASE Unbound = {}
    <3>1. call'[c].at = "idle" /\ \A e \in Callers \ {c} : call'[e] = call[e]
      BY <1>10, <1>d, <2>1 DEF Backfill
    <3>2. QED
      BY <1>1, <1>10, <2>1, <3>1 DEF Backfill
  <2>2. CASE Unbound # {}
    <3>1. PICK d \in Unbound : source' = [source EXCEPT ![d].agent = call[c].agent] /\ Saved(d, TRUE)
      BY <1>10, <2>2 DEF Backfill
    <3>2. agent' = agent /\ target' = target /\ call' = call
      BY <1>10, <2>2 DEF Backfill
    <3>3. d \in Sources /\ source[d].there
      BY DEF Unbound
    <3>4. /\ source'[d].agent = call[c].agent /\ source'[d].there
          /\ \A b \in Sources : b # d => source'[b] = source[b]
      BY <3>1, <3>3 DEF RegistryTypes, Entries
    <3>5. call[c].agent \in Agents /\ agent[call[c].agent].there /\ \A e \in Callers : call[e].at # "deleting agent"
      BY <1>0, <1>10 DEF Backfill, PhaseInv, StepWell, AgentPoints
    <3>6. \A i : i # d => (i \in sound' <=> i \in sound)
      BY <3>1, SavedOnly
    <3>7. SourcesRefer'
      BY <3>2, <3>3, <3>4, <3>5, <3>6, SourcesReferKept
    <3>8. \A b \in Sources : source[b].there => source'[b].there
      BY <3>4
    <3>9. \A t \in Tasks : t \in sound' <=> t \in sound
      BY <3>3, <3>6
    <3>10. TasksRefer'
      BY <3>2, <3>8, <3>9, TasksReferKept
    <3>11. QED
      BY <3>7, <3>10
  <2>3. QED
    BY <2>1, <2>2
<1>11. QED
  BY <1>1, <1>2, <1>3, <1>4, <1>5, <1>7, <1>8, <1>9, <1>10, HandlerReferences

LEMMA ReferencesKept ==
    ASSUME RegistryTypes, RegistryTypes', PhaseInv, SourcesRefer, TasksRefer, RegistryStep
    PROVE  SourcesRefer' /\ TasksRefer'
<1>1. ASSUME NEW c \in Callers, Handle(c) PROVE SourcesRefer' /\ TasksRefer'
  BY <1>1, ReferencesKeptByHandlers
<1>2. ASSUME NEW u \in Urls, Move(u) PROVE SourcesRefer' /\ TasksRefer'
  BY <1>2 DEF Move, rows, ghosts, SourcesRefer, TasksRefer
\* No thread is under way, and the row that is added was not there before.
<1>3. ASSUME Migrate PROVE SourcesRefer' /\ TasksRefer'
  <2>0. \A e \in Callers : call[e].at = "idle"
    BY <1>3 DEF Migrate, PhaseInv
  <2>1. CASE \E a \in Agents : agent[a].there
    BY <1>3, <2>1 DEF Migrate, ghosts, SourcesRefer, TasksRefer
  <2>2. CASE ~\E a \in Agents : agent[a].there
    <3>1. PICK a \in Agents : \E c \in Callers : Becomes(c, [Idle EXCEPT !.at = "backfilling", !.agent = a])
      BY <1>3, <2>2 DEF Migrate
    <3>2. \A e \in Callers : call'[e].at \in {"idle", "backfilling"}
      BY <3>1, <2>0 DEF Becomes, Idle, RegistryTypes, Steps
    <3>3. source' = source /\ target' = target /\ sound' = sound
      BY <1>3 DEF Migrate, ghosts
    <3>4. QED
      BY <2>2, <3>2, <3>3 DEF SourcesRefer, TasksRefer
  <2>3. QED
    BY <2>1, <2>2
<1>4. ASSUME Restart PROVE SourcesRefer' /\ TasksRefer'
  <2>1. \A e \in Callers : call'[e].at = "idle"
    BY <1>4 DEF Restart, Idle
  <2>2. QED
    BY <1>4, <2>1 DEF Restart, rows, SourcesRefer, TasksRefer
<1>5. ASSUME UNCHANGED registryVars PROVE SourcesRefer' /\ TasksRefer'
  BY <1>5 DEF registryVars, rows, ghosts, SourcesRefer, TasksRefer
<1>6. QED
  BY <1>1, <1>2, <1>3, <1>4, <1>5 DEF RegistryStep, RegistryNext

LEMMA BoundKept ==
    ASSUME RegistryTypes, RegistryTypes', PhaseInv, AllBound, RegistryStep
    PROVE  AllBound'
<1> USE RegistryAssumption
\* Nothing that has an agent loses it, and what is new has one.
<1>1. ASSUME \A d \in Sources : source'[d].there =>
                 (source[d].there /\ source'[d].agent = source[d].agent) \/ source'[d].agent \in Agents
      PROVE  Unbound = {} => Unbound' = {}
  BY <1>1 DEF Unbound
<1>2. ASSUME NEW c \in Callers, Handle(c), ~Backfill(c), PhaseInv PROVE AllBound'
  <2>1. phase = "up" /\ phase' = "up" /\ cut' = cut
    BY <1>2, HandlerServes
  <2>2. call[c] \in Steps /\ StepWell(call[c])
    BY CallWell
  <2>3. ASSUME source' = source PROVE AllBound'
    BY <1>1, <2>1, <2>3 DEF AllBound
  <2>4. ASSUME CreateSource(c) PROVE AllBound'
    <3>1. call[c].source \in Sources /\ call[c].agent \in Agents
      BY <2>2, <2>4 DEF CreateSource, StepWell, AgentPoints, SourcePoints
    <3>2. \A d \in Sources : source'[d] = source[d] \/ source'[d].agent = call[c].agent
      BY <2>4, <3>1 DEF CreateSource, RegistryTypes
    <3>3. QED
      BY <1>1, <2>1, <3>1, <3>2 DEF AllBound
  <2>5. ASSUME WriteSource(c) PROVE AllBound'
    <3>1. call[c].source \in Sources /\ call[c].agent \in Agents
      BY <2>2, <2>5 DEF WriteSource, StepWell, AgentPoints, SourcePoints
    <3>2. \A d \in Sources : source'[d] = source[d] \/ source'[d].agent = call[c].agent
      BY <2>5, <3>1 DEF WriteSource, RegistryTypes, Entries
    <3>3. QED
      BY <1>1, <2>1, <3>1, <3>2 DEF AllBound
  <2>6. ASSUME DeleteSource(c) PROVE AllBound'
    <3>1. \A d \in Sources : source'[d] = source[d] \/ ~source'[d].there
      BY <2>6 DEF DeleteSource, RegistryTypes, NoEntry
    <3>2. QED
      BY <1>1, <2>1, <3>1 DEF AllBound
  <2>7. CreateSource(c) \/ WriteSource(c) \/ DeleteSource(c) \/ source' = source
    BY <1>2 DEF Handle, AskAgent, BeginProbe, AskDeleteAgent, AskSave, AskDeleteSource, SaveTask, Register,
       UpdateAgent, Probe, RecordProbe, DeleteAgent, ReadSource, rows
  <2>8. QED
    BY <2>3, <2>4, <2>5, <2>6, <2>7
<1>3. ASSUME NEW c \in Callers, Backfill(c), PhaseInv PROVE AllBound'
  <2>1. phase = "backfilling"
    BY <1>3 DEF Backfill, PhaseInv
  <2>2. CASE Unbound = {}
    <3>1. Unbound' = {}
      BY <1>3, <2>2 DEF Backfill, Unbound
    <3>2. QED
      BY <3>1 DEF AllBound
  <2>3. CASE Unbound # {}
    <3>1. phase' = "backfilling"
      BY <1>3, <2>1, <2>3 DEF Backfill
    <3>2. QED
      BY <3>1 DEF AllBound
  <2>4. QED
    BY <2>2, <2>3
<1>4. ASSUME NEW u \in Urls, Move(u) PROVE AllBound'
  BY <1>4 DEF Move, rows, ghosts, AllBound, Unbound
<1>5. ASSUME Migrate PROVE AllBound'
  <2>1. CASE \E a \in Agents : agent[a].there
    BY <1>5, <2>1 DEF Migrate, ghosts, AllBound, Unbound
  <2>2. CASE ~\E a \in Agents : agent[a].there
    <3>1. phase' = "backfilling"
      BY <1>5, <2>2 DEF Migrate
    <3>2. QED
      BY <3>1 DEF AllBound
  <2>3. QED
    BY <2>1, <2>2
<1>6. ASSUME Restart PROVE AllBound'
  BY <1>6 DEF Restart, rows, AllBound, Unbound, RegistryTypes
<1>7. ASSUME UNCHANGED registryVars PROVE AllBound'
  BY <1>7 DEF registryVars, rows, ghosts, AllBound, Unbound
<1>8. QED
  BY <1>2, <1>3, <1>4, <1>5, <1>6, <1>7 DEF RegistryStep, RegistryNext

-----------------------------------------------------------------------------
(* Passwords *)

\* A step that writes one source and notes whom it overlaps.
LEMMA SecretsKeptByWrite ==
    ASSUME RegistryTypes, RegistryTypes', SecretInv, NEW c \in Callers, NEW id \in Sources, NEW anew \in BOOLEAN,
           Mixes(c, id, anew), Done(c),
           \A d \in Sources : d # id => source'[d] = source[d] /\ lastSet'[d] = lastSet[d],
           id \notin mixed' /\ source'[id].there => source'[id].secret = lastSet'[id],
           ~anew => lastSet'[id] = lastSet[id]
    PROVE  SecretInv'
<1>1. call'[c].at = "idle" /\ \A e \in Callers \ {c} : call'[e] = call[e]
  BY DEF Done, Becomes, Idle, RegistryTypes
<1>2. /\ \A d : d # id => (d \in mixed' <=> d \in mixed)
      /\ (\E e \in Callers \ {c} : call[e].at = "writing" /\ call[e].source = id) => id \in mixed'
  BY DEF Mixes
<1>3. SecretKept'
  <2>1. ASSUME NEW d \in Sources, source'[d].there, d \notin mixed', d # id
        PROVE  source'[d].secret = lastSet'[d]
    BY <1>2, <2>1 DEF SecretInv, SecretKept
  <2>2. QED
    BY <2>1 DEF SecretKept
<1>4. ASSUME NEW e \in Callers, call'[e].at = "writing", call'[e].source \notin mixed'
      PROVE  call'[e].kept = lastSet'[call'[e].source]
  <2>1. e # c /\ call'[e] = call[e]
    BY <1>1, <1>4
  <2>2. call[e].source # id
    BY <1>2, <1>4, <2>1
  <2>3. call[e].source \in Sources
    BY <1>4, <2>1 DEF RegistryTypes, StepWell, SourcePoints
  <2>4. QED
    BY <1>2, <1>4, <2>1, <2>2, <2>3 DEF SecretInv
<1>5. QED
  BY <1>3, <1>4 DEF SecretInv

LEMMA SecretsKeptByHandlers ==
    ASSUME RegistryTypes, RegistryTypes', SecretInv, NEW c \in Callers, Handle(c)
    PROVE  SecretInv'
<1>0. call \in [Callers -> Steps] /\ call[c] \in Steps /\ StepWell(call[c])
  BY DEF RegistryTypes
<1>d. ASSUME Done(c)
      PROVE  call'[c].at = "idle" /\ \A e \in Callers \ {c} : call'[e] = call[e]
  BY <1>0, <1>d DEF Done, Becomes, Idle
<1>1. ASSUME \A d \in Sources : source'[d] = source[d] \/ source'[d] = [source[d] EXCEPT !.agent = source'[d].agent],
             lastSet' = lastSet, mixed' = mixed,
             \A e \in Callers \ {c} : call'[e] = call[e],
             call'[c].at = "writing" => call'[c] = call[c]
      PROVE  SecretInv'
  <2>1. \A d \in Sources : source'[d].there = source[d].there /\ source'[d].secret = source[d].secret
    BY <1>1 DEF RegistryTypes, Entries
  <2>2. QED
    BY <1>1, <2>1 DEF SecretInv, SecretKept
<1>2. ASSUME NEW u \in Urls, NEW a, AskAgent(c, a, u) PROVE SecretInv'
  <2>1. CASE who[u] = Nobody
    BY <1>1, <1>2, <1>d, <2>1 DEF AskAgent, rows, ghosts
  <2>2. CASE who[u] # Nobody
    <3>1. Becomes(c, [Idle EXCEPT !.at = IF a = NoAgent THEN "registering" ELSE "updating",
                                  !.agent = a, !.url = u, !.info = who[u]])
      BY <1>2, <2>2 DEF AskAgent
    <3>2. call'[c].at \in {"registering", "updating"} /\ \A e \in Callers \ {c} : call'[e] = call[e]
      BY <1>0, <3>1 DEF Becomes, Idle
    <3>3. QED
      BY <1>1, <1>2, <3>2 DEF AskAgent, rows, ghosts
  <2>3. QED
    BY <2>1, <2>2
<1>3. ASSUME NEW a \in Agents, BeginProbe(c, a) \/ AskDeleteAgent(c, a) PROVE SecretInv'
  <2>1. call'[c].at \in {"asking", "deleting agent"} /\ \A e \in Callers \ {c} : call'[e] = call[e]
    BY <1>0, <1>3 DEF BeginProbe, AskDeleteAgent, Becomes, Idle
  <2>2. QED
    BY <1>1, <1>3, <2>1 DEF BeginProbe, AskDeleteAgent, rows, ghosts
<1>4. ASSUME NEW a \in Agents, NEW d \in Sources, NEW s, AskSave(c, d, a, s) PROVE SecretInv'
  <2>1. call'[c].at \in {"reading", "creating"} /\ \A e \in Callers \ {c} : call'[e] = call[e]
    BY <1>0, <1>4 DEF AskSave, Becomes, Idle
  <2>2. QED
    BY <1>1, <1>4, <2>1 DEF AskSave, rows, ghosts
<1>5. ASSUME NEW d \in Sources, AskDeleteSource(c, d) PROVE SecretInv'
  <2>1. call'[c].at = "deleting source" /\ \A e \in Callers \ {c} : call'[e] = call[e]
    BY <1>0, <1>5 DEF AskDeleteSource, Becomes, Idle
  <2>2. QED
    BY <1>1, <1>5, <2>1 DEF AskDeleteSource, rows, ghosts
<1>6. ASSUME NEW t \in Tasks, NEW d, SaveTask(c, t, d) PROVE SecretInv'
  BY <1>1, <1>6 DEF SaveTask
<1>7. ASSUME Register(c) \/ UpdateAgent(c) \/ RecordProbe(c) \/ DeleteAgent(c) PROVE SecretInv'
  <2>1. Done(c) /\ source' = source /\ lastSet' = lastSet /\ mixed' = mixed
    BY <1>7 DEF Register, UpdateAgent, RecordProbe, DeleteAgent, ghosts
  <2>2. QED
    BY <1>1, <1>d, <2>1
<1>8. ASSUME Probe(c) PROVE SecretInv'
  <2>1. call'[c].at = "recording" /\ \A e \in Callers \ {c} : call'[e] = call[e]
    BY <1>0, <1>8 DEF Probe, Becomes, Steps
  <2>2. QED
    BY <1>1, <1>8, <2>1 DEF Probe, rows, ghosts
<1>9. ASSUME CreateSource(c) PROVE SecretInv'
  <2>1. call[c].source \in Sources
    BY <1>0, <1>9 DEF CreateSource, StepWell, SourcePoints
  <2>2. source'[call[c].source].secret = call[c].given /\ lastSet'[call[c].source] = call[c].given
    BY <1>9, <2>1 DEF CreateSource, RegistryTypes
  <2>3. \A d \in Sources : d # call[c].source => source'[d] = source[d] /\ lastSet'[d] = lastSet[d]
    BY <1>9, <2>1 DEF CreateSource, RegistryTypes
  <2>4. Mixes(c, call[c].source, TRUE) /\ Done(c)
    BY <1>9 DEF CreateSource
  <2>5. QED
    BY <2>1, <2>2, <2>3, <2>4, SecretsKeptByWrite
\* The row that is read holds the password last saved.
<1>10. ASSUME ReadSource(c) PROVE SecretInv'
  <2> DEFINE id == call[c].source
  <2>0. id \in Sources
    BY <1>0, <1>10 DEF ReadSource, StepWell, SourcePoints
  <2>1. source' = source /\ lastSet' = lastSet /\ mixed' = mixed
    BY <1>10 DEF ReadSource, rows, ghosts
  <2>2. CASE source[id].there
    <3>1. Becomes(c, [call[c] EXCEPT !.at = "writing", !.kept = source[call[c].source].secret])
      BY <1>10, <2>2 DEF ReadSource
    <3>2. /\ call'[c].source = id /\ call'[c].kept = source[id].secret
          /\ \A e \in Callers \ {c} : call'[e] = call[e]
      BY <1>0, <3>1 DEF Steps, Becomes
    <3>3. id \notin mixed => source[id].secret = lastSet[id]
      BY <2>0, <2>2 DEF SecretInv, SecretKept
    <3>4. QED
      BY <2>1, <3>2, <3>3 DEF SecretInv, SecretKept
  <2>3. CASE ~source[id].there
    BY <1>1, <1>10, <1>d, <2>1, <2>3 DEF ReadSource
  <2>4. QED
    BY <2>2, <2>3
<1>11. ASSUME WriteSource(c) PROVE SecretInv'
  <2> DEFINE id == call[c].source
             anew == call[c].given # Blank
  <2>1. id \in Sources
    BY <1>0, <1>11 DEF WriteSource, StepWell, SourcePoints
  <2>2. \A d \in Sources : d # id => source'[d] = source[d] /\ lastSet'[d] = lastSet[d]
    BY <1>11, <2>1 DEF WriteSource, RegistryTypes
  <2>3. Mixes(c, id, anew) /\ Done(c)
    BY <1>11 DEF WriteSource
  <2>4. lastSet'[id] = IF anew THEN call[c].given ELSE lastSet[id]
    BY <1>11, <2>1 DEF WriteSource, RegistryTypes
  <2>5. source'[id].there => source'[id].secret = Effective(call[c].given, call[c].kept)
    BY <1>11, <2>1 DEF WriteSource, RegistryTypes, Entries
  <2>6. ~anew /\ id \notin mixed' => id \notin mixed
    BY <2>3 DEF Mixes
  <2>7. id \notin mixed => call[c].kept = lastSet[id]
    BY <1>11 DEF WriteSource, SecretInv
  <2>8. id \notin mixed' /\ source'[id].there => source'[id].secret = lastSet'[id]
    BY <2>4, <2>5, <2>6, <2>7 DEF Effective
  <2>9. anew \in BOOLEAN /\ (~anew => lastSet'[id] = lastSet[id])
    BY <2>4
  <2> HIDE DEF id, anew
  <2>10. QED
    BY <2>1, <2>2, <2>3, <2>8, <2>9, SecretsKeptByWrite
<1>12. ASSUME DeleteSource(c) PROVE SecretInv'
  <2>1. call[c].source \in Sources
    BY <1>0, <1>12 DEF DeleteSource, StepWell, SourcePoints
  <2>2. ~source'[call[c].source].there
    BY <1>12, <2>1 DEF DeleteSource, RegistryTypes, NoEntry
  <2>3. \A d \in Sources : d # call[c].source => source'[d] = source[d] /\ lastSet'[d] = lastSet[d]
    BY <1>12, <2>1 DEF DeleteSource, RegistryTypes
  <2>4. Mixes(c, call[c].source, TRUE) /\ Done(c)
    BY <1>12 DEF DeleteSource
  <2>5. QED
    BY <2>1, <2>2, <2>3, <2>4, SecretsKeptByWrite
<1>13. ASSUME Backfill(c) PROVE SecretInv'
  <2>1. lastSet' = lastSet /\ mixed' = mixed
    BY <1>13 DEF Backfill
  <2>2. CASE Unbound = {}
    BY <1>1, <1>13, <1>d, <2>1, <2>2 DEF Backfill
  <2>3. CASE Unbound # {}
    <3>1. PICK d \in Unbound : source' = [source EXCEPT ![d].agent = call[c].agent]
      BY <1>13, <2>3 DEF Backfill
    <3>2. call' = call
      BY <1>13, <2>3 DEF Backfill
    <3>3. \A b \in Sources : source'[b] = source[b] \/ source'[b] = [source[b] EXCEPT !.agent = source'[b].agent]
      BY <3>1 DEF RegistryTypes, Entries
    <3>4. QED
      BY <1>1, <2>1, <3>2, <3>3
  <2>4. QED
    BY <2>2, <2>3
<1>14. QED
  BY <1>2, <1>3, <1>4, <1>5, <1>6, <1>7, <1>8, <1>9, <1>10, <1>11, <1>12, <1>13 DEF Handle

LEMMA SecretsKept ==
    ASSUME RegistryTypes, RegistryTypes', PhaseInv, SecretInv, RegistryStep
    PROVE  SecretInv'
<1>1. ASSUME NEW c \in Callers, Handle(c) PROVE SecretInv'
  BY <1>1, SecretsKeptByHandlers
<1>2. ASSUME NEW u \in Urls, Move(u) PROVE SecretInv'
  BY <1>2 DEF Move, rows, ghosts, SecretInv, SecretKept
<1>3. ASSUME \A e \in Callers : call'[e].at \in {"idle", "backfilling"}, UNCHANGED <<source, lastSet, mixed>>
      PROVE  SecretInv'
  BY <1>3 DEF SecretInv, SecretKept
<1>4. ASSUME Migrate PROVE SecretInv'
  <2>0. \A e \in Callers : call[e].at = "idle"
    BY <1>4 DEF Migrate, PhaseInv
  <2>1. \A e \in Callers : call'[e].at \in {"idle", "backfilling"}
    <3>1. CASE call' = call
      BY <2>0, <3>1
    <3>2. CASE call' # call
      <4>1. PICK a \in Agents : \E c \in Callers : Becomes(c, [Idle EXCEPT !.at = "backfilling", !.agent = a])
        BY <1>4, <3>2 DEF Migrate
      <4>2. QED
        BY <2>0, <4>1 DEF Becomes, Idle, RegistryTypes, Steps
    <3>3. QED
      BY <3>1, <3>2
  <2>2. QED
    BY <1>3, <1>4, <2>1 DEF Migrate, ghosts
<1>5. ASSUME Restart PROVE SecretInv'
  BY <1>3, <1>5 DEF Restart, rows, Idle
<1>6. ASSUME UNCHANGED registryVars PROVE SecretInv'
  BY <1>6 DEF registryVars, rows, ghosts, SecretInv, SecretKept
<1>7. QED
  BY <1>1, <1>2, <1>4, <1>5, <1>6 DEF RegistryStep, RegistryNext

-----------------------------------------------------------------------------

LEMMA RegistryInvKept == RegistryInv /\ RegistryStep => RegistryInv'
BY RegistryTypesKept, PhasesKept, PinsKept, ReferencesKept, BoundKept, SecretsKept DEF RegistryInv

\* The catalogue keeps its invariant through every handler, probe, restart and moved machine.
THEOREM RegistryInvariant == RegistrySpec => []RegistryInv
<1>1. RegistryInit => RegistryInv
  BY RegistryStarts
<1>2. RegistryInv /\ [RegistryNext]_registryVars => RegistryInv'
  BY RegistryInvKept DEF RegistryStep
<1>3. QED
  BY <1>1, <1>2, PTL DEF RegistrySpec

\* Whatever updates, late probes and replaced machines come in between, an agent's row names
\* an identity that has answered at the row's address.
THEOREM IdentitiesTrue == RegistrySpec => []PinTrue
<1>1. RegistryInv => PinTrue
  BY DEF RegistryInv, PinInv
<1>2. QED
  BY <1>1, RegistryInvariant, PTL

\* What was saved with what it refers to keeps it, and a parent that is up has filled in
\* the agents of the data sources it inherited.
THEOREM ReferencesHold == RegistrySpec => []RefersWell
<1>1. RegistryInv => RefersWell
  BY DEF RegistryInv, RefersWell, SourcesRefer, TasksRefer, AllBound
<1>2. QED
  BY <1>1, RegistryInvariant, PTL

\* A saved password is lost only to updates that overlap.
THEOREM PasswordsKept == RegistrySpec => []SecretKept
<1>1. RegistryInv => SecretKept
  BY DEF RegistryInv, SecretInv
<1>2. QED
  BY <1>1, RegistryInvariant, PTL

-----------------------------------------------------------------------------
(* Run log: the newest of finitely many, and the greatest of finitely many numbers. *)

LEMMA TopOf ==
    ASSUME NEW S, IsFiniteSet(S), S # {}, NEW R,
           \A x \in S : <<x, x>> \notin R,
           \A x, y, z \in S : <<x, y>> \in R /\ <<y, z>> \in R => <<x, z>> \in R
    PROVE  \E m \in S : \A q \in S : <<q, m>> \notin R
<1> DEFINE Above(m) == {q \in S : <<q, m>> \in R}
           family == {Above(m) : m \in S}
<1>1. family \subseteq FiniteSubsetsOf(S) /\ family # {}
  <2>1. \A m \in S : Above(m) \subseteq S /\ IsFiniteSet(Above(m))
    BY FS_Subset
  <2>2. family \subseteq FiniteSubsetsOf(S)
    <3>1. ASSUME NEW F \in family PROVE F \in FiniteSubsetsOf(S)
      <4>1. PICK m \in S : F = Above(m)
        OBVIOUS
      <4>2. F \in SUBSET S /\ IsFiniteSet(F)
        BY <2>1, <4>1
      <4>3. QED
        BY <4>2, Zenon DEF FiniteSubsetsOf
    <3>2. QED
      BY <3>1
  <2>3. PICK m : m \in S
    OBVIOUS
  <2>4. Above(m) \in family
    BY <2>3
  <2>5. QED
    BY <2>2, <2>4
<1>2. PICK least \in family : \A other \in family : <<other, least>> \notin StrictSubsetOrdering(S)
  <2>1. IsWellFoundedOn(StrictSubsetOrdering(S), FiniteSubsetsOf(S))
    BY FS_StrictSubsetOrderingWellFounded
  <2> HIDE DEF family
  <2>2. QED
    BY <1>1, <2>1, WFMin, Zenon
<1>3. PICK m \in S : least = Above(m)
  OBVIOUS
<1>4. ASSUME NEW q \in S, <<q, m>> \in R PROVE FALSE
  <2>1. Above(q) \subseteq Above(m) /\ q \in Above(m) /\ q \notin Above(q)
    BY <1>4
  <2>2. <<Above(q), Above(m)>> \in StrictSubsetOrdering(S)
    BY <2>1 DEF StrictSubsetOrdering
  <2>3. Above(q) \in family
    OBVIOUS
  <2>4. QED
    BY <1>2, <1>3, <2>2, <2>3
<1>5. QED
  BY <1>4

LEMMA GreatestOf ==
    ASSUME NEW S \in SUBSET Int, IsFiniteSet(S), S # {}
    PROVE  \E m \in S : \A q \in S : q <= m
<1> DEFINE R == {p \in S \X S : p[1] > p[2]}
<1>1. \A x, y \in S : <<x, y>> \in R <=> x > y
  OBVIOUS
<1> HIDE DEF R
<1>2. \A x \in S : <<x, x>> \notin R
  BY <1>1
<1>3. \A x, y, z \in S : <<x, y>> \in R /\ <<y, z>> \in R => <<x, z>> \in R
  BY <1>1
<1>4. PICK m \in S : \A q \in S : <<q, m>> \notin R
  BY <1>2, <1>3, TopOf, Zenon
<1>5. \A q \in S : q <= m
  <2>1. \A q \in S : ~(q > m)
    BY <1>1, <1>4
  <2>2. QED
    BY <2>1
<1>6. QED
  BY <1>5

-----------------------------------------------------------------------------
(* Retention *)

Lines == RunIds \X Nat \X Nat
RunsOf(lines) == {l[1] : l \in lines}
Rivals(r, lines) == {q \in RunsOf(lines) : OwnerOf[q] = OwnerOf[r] /\ Newer(q, r)}

LEMMA RunsFinite ==
    ASSUME NEW L \in SUBSET Lines, IsFiniteSet(L)
    PROVE  IsFiniteSet(RunsOf(L)) /\ RunsOf(L) \subseteq RunIds
<1> DEFINE f == [l \in L |-> l[1]]
<1>1. f \in Surjection(L, RunsOf(L))
  BY DEF Surjection, RunsOf
<1>2. IsFiniteSet(RunsOf(L))
  BY <1>1, FS_Surjection, Zenon
<1>3. QED
  BY <1>2 DEF RunsOf, Lines

LEMMA RivalsCount ==
    ASSUME NEW L \in SUBSET Lines, IsFiniteSet(L), NEW r
    PROVE  /\ IsFiniteSet(Rivals(r, L)) /\ Cardinality(Rivals(r, L)) \in Nat
           /\ Rivals(r, L) \subseteq RunIds
           /\ Surplus(r, L) <=> Cardinality(Rivals(r, L)) >= RetentionRuns
<1>1. Rivals(r, L) \subseteq RunsOf(L)
  BY DEF Rivals
<1>2. IsFiniteSet(RunsOf(L)) /\ RunsOf(L) \subseteq RunIds
  BY RunsFinite
<1>3. IsFiniteSet(Rivals(r, L))
  BY <1>1, <1>2, FS_Subset, Zenon
<1>4. QED
  BY <1>1, <1>2, <1>3, FS_CardinalityType DEF Surplus, Rivals, RunsOf

LEMMA NewerOrder ==
    ASSUME startedOn \in [RunIds -> Int], NEW x \in RunIds, NEW y \in RunIds, NEW z \in RunIds
    PROVE  ~Newer(x, x) /\ (Newer(x, y) /\ Newer(y, z) => Newer(x, z))
BY RunLogAssumption DEF Newer

LEMMA NewestOf ==
    ASSUME startedOn \in [RunIds -> Int], NEW S \in SUBSET RunIds, IsFiniteSet(S), S # {}
    PROVE  \E m \in S : \A q \in S : ~Newer(q, m)
<1> DEFINE R == {p \in S \X S : Newer(p[1], p[2])}
<1>1. \A x, y \in S : <<x, y>> \in R <=> Newer(x, y)
  OBVIOUS
<1> HIDE DEF R
<1>2. \A x \in S : <<x, x>> \notin R
  BY <1>1, NewerOrder
<1>3. \A x, y, z \in S : <<x, y>> \in R /\ <<y, z>> \in R => <<x, z>> \in R
  BY <1>1, NewerOrder
<1>4. \E m \in S : \A q \in S : <<q, m>> \notin R
  BY <1>2, <1>3, TopOf, Zenon
<1>5. QED
  BY <1>1, <1>4

\* More rivals never bring a run back.
LEMMA SurplusGrows ==
    ASSUME NEW L \in SUBSET Lines, IsFiniteSet(L), NEW M \in SUBSET Lines, IsFiniteSet(M), NEW r,
           Rivals(r, L) \subseteq Rivals(r, M), Surplus(r, L)
    PROVE  Surplus(r, M)
<1>1. Cardinality(Rivals(r, L)) <= Cardinality(Rivals(r, M))
  BY RivalsCount, FS_Subset
<1>2. QED
  BY <1>1, RivalsCount, RunLogAssumption

\* A run that is cleared out as surplus still is when all that is surplus has gone: the
\* newest of its rivals stay.
LEMMA SurplusKept ==
    ASSUME startedOn \in [RunIds -> Int], NEW L \in SUBSET Lines, IsFiniteSet(L), NEW r \in RunIds,
           Surplus(r, L)
    PROVE  Surplus(r, {l \in L : ~Surplus(l[1], L)})
<1> DEFINE K == {l \in L : ~Surplus(l[1], L)}
           T == Rivals(r, L)
           U == Rivals(r, K)
<1>1. K \in SUBSET Lines /\ IsFiniteSet(K)
  BY FS_Subset
<1>2. IsFiniteSet(T) /\ T \subseteq RunIds /\ Cardinality(T) \in Nat /\ Cardinality(T) >= RetentionRuns
  BY RivalsCount
<1>3. IsFiniteSet(U) /\ Cardinality(U) \in Nat /\ (Surplus(r, K) <=> Cardinality(U) >= RetentionRuns)
  BY <1>1, RivalsCount
<1>4. \A q : q \in U <=> q \in T /\ ~Surplus(q, L)
  BY DEF Rivals, RunsOf
<1> SUFFICES ASSUME ~Surplus(r, K) PROVE FALSE
  OBVIOUS
<1> HIDE DEF K, T, U
<1>5. T \ U # {}
  <2>1. U \subseteq T /\ T # U
    BY <1>2, <1>3, <1>4
  <2>2. QED
    BY <2>1
<1>6. PICK m \in T \ U : \A q \in T \ U : ~Newer(q, m)
  <2>1. T \ U \in SUBSET RunIds /\ IsFiniteSet(T \ U)
    BY <1>2, FS_Subset
  <2>2. QED
    BY <1>5, <2>1, NewestOf
<1>7. Rivals(m, L) \subseteq U
  <2>1. ASSUME NEW q \in Rivals(m, L) PROVE q \in T
    <3>1. m \in RunIds /\ OwnerOf[m] = OwnerOf[r] /\ Newer(m, r)
      BY <1>2 DEF T, Rivals
    <3>2. q \in RunIds /\ q \in RunsOf(L) /\ OwnerOf[q] = OwnerOf[m] /\ Newer(q, m)
      BY RivalsCount DEF Rivals
    <3>3. Newer(q, r)
      BY <3>1, <3>2, NewerOrder
    <3>4. QED
      BY <3>1, <3>2, <3>3 DEF T, Rivals
  <2>2. \A q \in Rivals(m, L) : Newer(q, m)
    BY DEF Rivals
  <2>3. QED
    BY <1>6, <2>1, <2>2
<1>8. Cardinality(Rivals(m, L)) <= Cardinality(U)
  BY <1>3, <1>7, FS_Subset
<1>9. ~Surplus(m, L)
  BY <1>3, <1>8, RivalsCount, RunLogAssumption
<1>10. QED
  BY <1>4, <1>9

-----------------------------------------------------------------------------
(* Run log: the invariant *)

LogTypes ==
    /\ day \in Nat
    /\ startedOn \in [RunIds -> Int] /\ \A r \in RunIds : startedOn[r] >= NotYet
    /\ stored \in SUBSET Lines /\ IsFiniteSet(stored)
    /\ pen \in [RunIds -> Int] /\ \A r \in RunIds : pen[r] >= LostPen
    /\ said \in [RunIds -> Nat] /\ cursor \in [RunIds -> Nat]

\* A run says nothing before it starts.
NotStarted ==
    /\ \A r \in RunIds : startedOn[r] = NotYet => cursor[r] = 0 /\ pen[r] = NoPen
    /\ \A l \in stored : startedOn[l[1]] # NotYet

\* The next line goes behind all the stored ones, and no number is given twice.
PenAhead == \A l \in stored : l[1] \notin blind /\ Writing(l[1]) => l[2] <= pen[l[1]]
OneByKey == \A k, l \in stored : k[1] = l[1] /\ k[2] = l[2] => k = l

\* The run is too old, or newer ones crowd it out: it will never have a line again.
Swept(r) == Expired(r) \/ Surplus(r, stored)

\* A pen taken up at the last stored number starts at or before a cursor only when the lines
\* between the two have been cleared out, and then nothing more of that run is kept.
Covered == \A r \in RunIds : cursor[r] = 0 \/ Swept(r) \/ \E l \in stored : l[1] = r /\ l[2] >= cursor[r]

LogInv == LogTypes /\ NotStarted /\ PenAhead /\ OneByKey /\ Covered /\ NothingBehind

-----------------------------------------------------------------------------
(* Run log: what a write keeps, and what stays swept *)

\* Newer runs do not expire first.
LEMMA NewerStays ==
    ASSUME startedOn \in [RunIds -> Int], day \in Nat, NEW q \in RunIds, NEW r \in RunIds, Newer(q, r), ~Expired(r)
    PROVE  ~Expired(q)
BY RunLogAssumption DEF Newer, Expired

LEMMA AppendedKeeps ==
    ASSUME LogTypes, NEW q \in RunIds, NEW n \in Nat, NEW line \in Nat
    PROVE  /\ Appended(q, n, line) \in SUBSET Lines /\ IsFiniteSet(Appended(q, n, line))
           /\ \A l \in Appended(q, n, line) :
                  l = <<q, n, line>> \/ (l \in stored /\ ~(l[1] = q /\ l[2] = n))
           /\ \A r \in RunIds : Swept(r) =>
                  /\ Expired(r) \/ Surplus(r, Appended(q, n, line))
                  /\ \A l \in Appended(q, n, line) : l[1] # r
           /\ \A l \in stored \cup {<<q, n, line>>} :
                  \/ l \in Appended(q, n, line) \/ (l[1] = q /\ l[2] = n)
                  \/ Expired(l[1]) \/ Surplus(l[1], Appended(q, n, line))
           /\ \/ <<q, n, line>> \in Appended(q, n, line)
              \/ Expired(q) \/ Surplus(q, Appended(q, n, line))
<1> DEFINE new == <<q, n, line>>
           old == {l \in stored : <<l[1], l[2]>> # <<q, n>>}
           all == old \cup {new}
           recent == {l \in all : ~Expired(l[1])}
           kept == {l \in recent : ~Surplus(l[1], recent)}
<1>0. /\ startedOn \in [RunIds -> Int] /\ day \in Nat
      /\ stored \in SUBSET Lines /\ IsFiniteSet(stored)
  BY DEF LogTypes
<1>1. Appended(q, n, line) = kept
  BY DEF Appended, Cleaned
<1>2. new \in Lines /\ new[1] = q /\ new[2] = n
  BY DEF Lines
<1>3. old \in SUBSET Lines /\ IsFiniteSet(old)
  BY <1>0, FS_Subset
<1>4. all \in SUBSET Lines /\ IsFiniteSet(all)
  BY <1>2, <1>3, FS_AddElement
<1>5. recent \in SUBSET Lines /\ IsFiniteSet(recent)
  BY <1>4, FS_Subset
<1>6. kept \in SUBSET Lines /\ IsFiniteSet(kept)
  BY <1>5, FS_Subset
<1>7. \A l \in kept : l = new \/ (l \in stored /\ ~(l[1] = q /\ l[2] = n))
  OBVIOUS
<1>8. \A l \in stored \cup {new} : l \in all \/ (l[1] = q /\ l[2] = n)
  BY <1>2
<1>9. new \in all /\ (\A l \in all : l[1] \in RunIds)
  BY <1>4 DEF Lines
<1>10. \A r \in RunIds : Surplus(r, recent) => Surplus(r, kept)
  BY <1>0, <1>5, SurplusKept
\* The rivals of a run that is not too old are not too old.
<1>11. ASSUME NEW r \in RunIds, Surplus(r, stored), ~Expired(r)
       PROVE  Surplus(r, recent)
  <2>1. \A z \in RunsOf(stored) : z \in RunsOf(all)
    <3>1. ASSUME NEW l \in stored PROVE l[1] \in RunsOf(all)
      <4>1. CASE l[1] = q
        BY <1>2, <1>9, <4>1 DEF RunsOf
      <4>2. CASE l[1] # q
        BY <1>8, <4>2 DEF RunsOf
      <4>3. QED
        BY <4>1, <4>2
    <3>2. QED
      BY <3>1 DEF RunsOf
  <2> HIDE DEF all
  <2>2. ASSUME NEW z \in Rivals(r, stored) PROVE z \in Rivals(r, recent)
    <3>1. z \in RunIds /\ z \in RunsOf(stored) /\ OwnerOf[z] = OwnerOf[r] /\ Newer(z, r)
      BY <1>0, RivalsCount DEF Rivals
    <3>2. ~Expired(z)
      BY <1>0, <1>11, <3>1, NewerStays
    <3>3. PICK l \in all : l[1] = z
      BY <2>1, <3>1 DEF RunsOf
    <3>4. l \in recent
      BY <3>2, <3>3
    <3>5. QED
      BY <3>1, <3>3, <3>4 DEF Rivals, RunsOf
  <2>3. Rivals(r, stored) \subseteq Rivals(r, recent)
    BY <2>2
  <2> HIDE DEF recent
  <2>4. QED
    BY <1>0, <1>5, <1>11, <2>3, SurplusGrows
<1>12. ASSUME NEW r \in RunIds, Swept(r)
       PROVE  (Expired(r) \/ Surplus(r, kept)) /\ \A l \in kept : l[1] # r
  <2>1. CASE Expired(r)
    BY <2>1
  <2>2. CASE ~Expired(r)
    <3>1. Surplus(r, recent)
      BY <1>11, <1>12, <2>2 DEF Swept
    <3>2. QED
      BY <1>10, <3>1
  <2>3. QED
    BY <2>1, <2>2
<1>13. ASSUME NEW l \in all
       PROVE  l \in kept \/ Expired(l[1]) \/ Surplus(l[1], kept)
  BY <1>9, <1>10
<1>14. new \in kept \/ Expired(q) \/ Surplus(q, kept)
  BY <1>2, <1>9, <1>13
<1> HIDE DEF kept, recent, all, old
<1>15. \A l \in stored \cup {new} : \/ l \in kept \/ (l[1] = q /\ l[2] = n)
                                    \/ Expired(l[1]) \/ Surplus(l[1], kept)
  BY <1>8, <1>13
<1>16. QED
  BY <1>1, <1>6, <1>7, <1>12, <1>14, <1>15

LEMMA SweptStays ==
    ASSUME LogTypes, LogTypes', NEW r \in RunIds, Swept(r), day' >= day, stored' = stored,
           startedOn'[r] = startedOn[r], \A l \in stored : startedOn'[l[1]] = startedOn[l[1]]
    PROVE  Swept(r)'
<1>1. CASE Expired(r)
  BY <1>1, RunLogAssumption DEF Expired, Swept, LogTypes
<1>2. CASE Surplus(r, stored)
  <2>1. {q \in {l[1] : l \in stored} : OwnerOf[q] = OwnerOf[r] /\ Newer(q, r)}
            = {q \in {l[1] : l \in stored} : OwnerOf[q] = OwnerOf[r] /\ Newer(q, r)'}
    BY DEF Newer
  <2>2. Surplus(r, stored)'
    BY <1>2, <2>1 DEF Surplus
  <2>3. QED
    BY <2>2 DEF Swept
<1>3. QED
  BY <1>1, <1>2 DEF Swept

-----------------------------------------------------------------------------
(* Run log: numbers and pages *)

LEMMA NumbersFinite ==
    ASSUME NEW L \in SUBSET Lines, IsFiniteSet(L)
    PROVE  IsFiniteSet({l[2] : l \in L}) /\ {l[2] : l \in L} \subseteq Nat
<1> DEFINE f == [l \in L |-> l[2]]
<1>1. f \in Surjection(L, {l[2] : l \in L})
  BY DEF Surjection
<1>2. IsFiniteSet({l[2] : l \in L})
  BY <1>1, FS_Surjection, Zenon
<1>3. QED
  BY <1>2 DEF Lines

LEMMA LastSeqIs ==
    ASSUME LogTypes, NEW r \in RunIds
    PROVE  LastSeq(r) \in Nat /\ \A l \in stored : l[1] = r => l[2] <= LastSeq(r)
<1>1. LinesOf(r) \in SUBSET Lines /\ IsFiniteSet(LinesOf(r))
  BY FS_Subset DEF LinesOf, LogTypes
<1>2. IsFiniteSet(SeqsOf(r)) /\ SeqsOf(r) \subseteq Nat
  BY <1>1, NumbersFinite DEF SeqsOf
<1>3. IsFiniteSet(SeqsOf(r) \cup {0}) /\ SeqsOf(r) \cup {0} \in SUBSET Int /\ SeqsOf(r) \cup {0} # {}
  BY <1>2, FS_AddElement
<1>4. \E m \in SeqsOf(r) \cup {0} : \A q \in SeqsOf(r) : q <= m
  BY <1>3, GreatestOf
<1>5. LastSeq(r) \in SeqsOf(r) \cup {0} /\ \A m \in SeqsOf(r) : m <= LastSeq(r)
  BY <1>4 DEF LastSeq
<1>6. \A l \in stored : l[1] = r => l[2] \in SeqsOf(r)
  BY DEF SeqsOf, LinesOf
<1>7. QED
  BY <1>2, <1>5, <1>6

\* Where a poll leaves the cursor.
LEMMA PageHasTop ==
    ASSUME LogTypes, NEW r \in RunIds, NEW after \in Nat, Page(r, after) # {}
    PROVE  \E n \in {l[2] : l \in Page(r, after)} : \A l \in Page(r, after) : l[2] <= n
<1> DEFINE page == Page(r, after)
           numbers == {l[2] : l \in page}
<1>1. page \in SUBSET Lines /\ IsFiniteSet(page)
  <2>1. page \in SUBSET stored
    BY DEF Page, LinesOf
  <2>2. QED
    BY <2>1, FS_Subset DEF LogTypes
<1> HIDE DEF page
<1>2. IsFiniteSet(numbers) /\ numbers \in SUBSET Int
  BY <1>1, NumbersFinite
<1>3. numbers # {} /\ \A l \in page : l[2] \in numbers
  BY DEF page
<1> HIDE DEF numbers
<1>4. \E n \in numbers : \A l \in page : l[2] <= n
  BY <1>2, <1>3, GreatestOf
<1>5. QED
  BY <1>4 DEF numbers, page

\* What the cursor has passed is on the page or was behind it before.
LEMMA PageTop ==
    ASSUME LogTypes, NEW r \in RunIds, NEW after \in Nat, NEW last \in Page(r, after)
    PROVE  /\ last \in stored /\ last[1] = r /\ last[2] \in Nat
           /\ \A l \in stored : l[1] = r /\ l[2] <= last[2] => l[2] <= after \/ l \in Page(r, after)
<1> DEFINE behind == {l \in LinesOf(r) : l[2] > after}
           before(l) == {m \in behind : m[2] < l[2]}
<1>0. stored \in SUBSET Lines /\ IsFiniteSet(stored)
  BY DEF LogTypes
<1>1. Page(r, after) = {l \in behind : Cardinality(before(l)) < PageLimit}
  BY DEF Page
<1>2. behind \in SUBSET stored /\ IsFiniteSet(behind) /\ \A l \in behind : l[1] = r
  BY <1>0, FS_Subset DEF LinesOf
<1>6. last \in stored /\ last[1] = r /\ last[2] \in Nat
  BY <1>0, <1>1, <1>2 DEF Lines
<1>7. ASSUME NEW l \in stored, l[1] = r, l[2] <= last[2], ~(l[2] <= after)
      PROVE  l \in Page(r, after)
  <2>1. l[2] \in Nat /\ \A m \in behind : m[2] \in Nat
    BY <1>0, <1>2 DEF Lines
  <2>2. l \in behind
    BY <1>7, <2>1 DEF LinesOf
  <2>3. before(l) \subseteq before(last)
    <3>1. ASSUME NEW m \in behind, m[2] < l[2] PROVE m[2] < last[2]
      BY <1>6, <1>7, <2>1, <3>1
    <3>2. QED
      BY <3>1
  <2>4. IsFiniteSet(before(last)) /\ Cardinality(before(last)) < PageLimit /\ IsFiniteSet(before(l))
    BY <1>1, <1>2, FS_Subset
  <2>5. /\ Cardinality(before(l)) <= Cardinality(before(last))
        /\ Cardinality(before(l)) \in Nat /\ Cardinality(before(last)) \in Nat
    BY <2>3, <2>4, FS_Subset, FS_CardinalityType
  <2>6. Cardinality(before(l)) < PageLimit
    BY <2>4, <2>5, RunLogAssumption
  <2>7. QED
    BY <1>1, <2>2, <2>6
<1>8. QED
  BY <1>6, <1>7

-----------------------------------------------------------------------------
(* Run log: every step *)

LEMMA LogStarts == RunLogInit => LogInv
<1> SUFFICES ASSUME RunLogInit PROVE LogInv
  OBVIOUS
<1>1. LogTypes
  BY FS_EmptySet DEF RunLogInit, LogTypes, NotYet, NoPen, LostPen
<1>2. NotStarted /\ PenAhead /\ OneByKey /\ NothingBehind
  BY DEF RunLogInit, NotStarted, PenAhead, OneByKey, NothingBehind
<1>3. Covered
  BY DEF RunLogInit, Covered
<1>4. QED
  BY <1>1, <1>2, <1>3 DEF LogInv

\* A step that leaves the lines, the cursors and the starts alone.
LEMMA QuietLogStep ==
    ASSUME LogInv, LogTypes', day' >= day,
           UNCHANGED <<startedOn, stored, cursor, shown>>, blind \subseteq blind',
           \A r \in RunIds : pen[r] = NoPen => pen'[r] = NoPen,
           \A r \in RunIds : pen'[r] \in {pen[r], NoPen, LostPen} \/ r \in blind' \/
               \A l \in stored : l[1] = r => l[2] <= pen'[r]
    PROVE  LogInv'
<1>1. NotStarted'
  BY DEF LogInv, NotStarted
<1>2. PenAhead'
  <2>1. SUFFICES ASSUME NEW l \in stored, l[1] \notin blind', Writing(l[1])'
                 PROVE  l[2] <= pen'[l[1]]
    BY DEF PenAhead
  <2>2. l[1] \in RunIds /\ l[1] \notin blind
    BY <2>1 DEF LogInv, LogTypes, Lines
  <2>3. CASE pen'[l[1]] = pen[l[1]]
    BY <2>1, <2>2, <2>3 DEF LogInv, PenAhead, Writing
  <2>4. CASE pen'[l[1]] # pen[l[1]]
    BY <2>1, <2>2, <2>4 DEF Writing
  <2>5. QED
    BY <2>3, <2>4
<1>3. OneByKey' /\ NothingBehind'
  BY DEF LogInv, OneByKey, NothingBehind
<1>4. Covered'
  <2>1. \A r \in RunIds : Swept(r) => Swept(r)'
    BY SweptStays DEF LogInv
  <2>2. QED
    BY <2>1 DEF LogInv, Covered
<1>5. QED
  BY <1>1, <1>2, <1>3, <1>4 DEF LogInv

LEMMA StartKeepsLog ==
    ASSUME LogInv, NEW r \in RunIds, Start(r)
    PROVE  LogInv'
<1>1. LogTypes'
  BY DEF LogInv, Start, LogTypes, NotYet, LostPen
<1>2. \A l \in stored : l[1] \in RunIds /\ l[1] # r /\ startedOn'[l[1]] = startedOn[l[1]]
  BY DEF LogInv, NotStarted, Start, LogTypes, Lines
<1>3. stored' = stored /\ cursor' = cursor /\ shown' = shown /\ blind' = blind /\ day' = day
  BY DEF Start
<1>4. \A q \in RunIds : q # r => startedOn'[q] = startedOn[q] /\ pen'[q] = pen[q]
  BY DEF Start, LogInv, LogTypes
<1>5. cursor[r] = 0
  BY DEF Start, LogInv, NotStarted
<1>a. startedOn'[r] # NotYet
  BY DEF LogInv, LogTypes, Start, NotYet
<1>6. NotStarted'
  BY <1>2, <1>3, <1>4, <1>a DEF LogInv, NotStarted
<1>7. PenAhead'
  BY <1>2, <1>3, <1>4 DEF LogInv, PenAhead, Writing
<1>8. OneByKey' /\ NothingBehind'
  BY <1>3 DEF LogInv, OneByKey, NothingBehind
<1>9. Covered'
  <2>1. \A q \in RunIds : q # r /\ Swept(q) => Swept(q)'
    <3>1. ASSUME NEW q \in RunIds, q # r, Swept(q) PROVE Swept(q)'
      <4>1. day' >= day
        BY <1>3 DEF LogInv, LogTypes
      <4>2. QED
        BY <1>1, <1>2, <1>3, <1>4, <3>1, <4>1, SweptStays DEF LogInv
    <3>2. QED
      BY <3>1
  <2>2. QED
    BY <1>3, <1>5, <2>1 DEF LogInv, Covered
<1>10. QED
  BY <1>1, <1>6, <1>7, <1>8, <1>9 DEF LogInv

LEMMA StoreKeepsLog ==
    ASSUME LogInv, NEW q \in RunIds, Write(q), stored' = Appended(q, pen[q] + 1, said[q] + 1)
    PROVE  LogInv'
<1> DEFINE n == pen[q] + 1
           line == said[q] + 1
           new == <<q, n, line>>
<1>0. /\ pen[q] \in Nat /\ n \in Nat /\ n > pen[q] /\ line \in Nat
      /\ stored \in SUBSET Lines
  BY DEF LogInv, LogTypes, Write, Writing, NoPen, LostPen
<1>1. /\ stored' \in SUBSET Lines /\ IsFiniteSet(stored')
      /\ \A l \in stored' : l = new \/ (l \in stored /\ ~(l[1] = q /\ l[2] = n))
      /\ \A r \in RunIds : Swept(r) =>
             (Expired(r) \/ Surplus(r, stored')) /\ \A l \in stored' : l[1] # r
      /\ \A l \in stored : l \in stored' \/ (l[1] = q /\ l[2] = n) \/ Expired(l[1]) \/ Surplus(l[1], stored')
      /\ new \in stored' \/ Expired(q) \/ Surplus(q, stored')
  <2> HIDE DEF n, line
  <2>1. stored' = Appended(q, n, line)
    BY DEF n, line
  <2>2. LogTypes
    BY DEF LogInv
  <2>3. QED
    BY <1>0, <2>1, <2>2, AppendedKeeps
<1>2. /\ pen' = [pen EXCEPT ![q] = n] /\ said' = [said EXCEPT ![q] = line]
      /\ day' = day /\ startedOn' = startedOn /\ cursor' = cursor /\ shown' = shown /\ blind' = blind
  BY DEF Write
<1>3. startedOn[q] # NotYet
  BY DEF LogInv, NotStarted, Write, Writing
<1> HIDE DEF n, line
<1>4. LogTypes'
  BY <1>0, <1>1, <1>2 DEF LogInv, LogTypes, LostPen
<1>5. new[1] = q /\ new[2] = n
  OBVIOUS
<1> HIDE DEF new
<1>6. NotStarted'
  BY <1>1, <1>2, <1>3, <1>5 DEF LogInv, NotStarted
<1>7. OneByKey'
  BY <1>1, <1>5 DEF LogInv, OneByKey
<1>8. PenAhead'
  <2>1. SUFFICES ASSUME NEW l \in stored', l[1] \notin blind, Writing(l[1])'
                 PROVE  l[2] <= pen'[l[1]]
    BY <1>2 DEF PenAhead
  <2>2. l[1] \in RunIds /\ l[2] \in Nat
    BY <1>1 DEF Lines
  <2>3. CASE l[1] = q
    <3>1. pen'[l[1]] = n
      BY <1>2, <2>2, <2>3 DEF LogInv, LogTypes
    <3>2. CASE l = new
      BY <1>0, <1>5, <3>1, <3>2
    <3>3. CASE l # new
      <4>1. l \in stored /\ Writing(q)
        BY <1>1, <3>3 DEF Write
      <4>2. l[2] <= pen[q]
        BY <2>1, <2>3, <4>1 DEF LogInv, PenAhead
      <4>3. QED
        BY <1>0, <2>2, <3>1, <4>2
    <3>4. QED
      BY <3>2, <3>3
  <2>4. CASE l[1] # q
    <3>1. l \in stored /\ pen'[l[1]] = pen[l[1]]
      BY <1>1, <1>2, <1>5, <2>2, <2>4 DEF LogInv, LogTypes
    <3>2. QED
      BY <2>1, <3>1 DEF LogInv, PenAhead, Writing
  <2>5. QED
    BY <2>3, <2>4
<1>9. \A r \in RunIds : (Swept(r)' <=> Expired(r) \/ Surplus(r, stored'))
  <2>1. \A r \in RunIds : (Expired(r)' <=> Expired(r))
    BY <1>2 DEF Expired
  <2>2. \A r \in RunIds : (Surplus(r, stored)' <=> Surplus(r, stored'))
    BY <1>2 DEF Surplus, Newer
  <2>3. QED
    BY <2>1, <2>2 DEF Swept
<1>10. Covered'
  <2>1. SUFFICES ASSUME NEW r \in RunIds, cursor[r] # 0, ~Swept(r)'
                 PROVE  \E l \in stored' : l[1] = r /\ l[2] >= cursor[r]
    BY <1>2 DEF Covered
  <2>2. ~Swept(r) /\ ~Expired(r) /\ ~Surplus(r, stored')
    BY <1>1, <1>9, <2>1
  <2>3. PICK l \in stored : l[1] = r /\ l[2] >= cursor[r]
    BY <2>1, <2>2 DEF LogInv, Covered
  <2>4. CASE l \in stored'
    BY <2>3, <2>4
  <2>5. CASE l \notin stored'
    <3>1. l[1] = q /\ l[2] = n /\ r = q
      BY <1>1, <2>2, <2>3, <2>5
    <3>2. new \in stored'
      BY <1>1, <2>2, <3>1
    <3>3. QED
      BY <1>5, <2>3, <3>1, <3>2
  <2>6. QED
    BY <2>4, <2>5
\* The new line is not behind the cursor: it goes behind the stored ones, and the cursor is at
\* or before one of them unless nothing of this run is kept any more.
<1>11. NothingBehind'
  <2>1. SUFFICES ASSUME NEW l \in stored', l[1] \notin blind, l[2] <= cursor[l[1]]
                 PROVE  <<l[1], l[3]>> \in shown
    BY <1>2 DEF NothingBehind
  <2>2. CASE l # new
    BY <1>1, <2>1, <2>2 DEF LogInv, NothingBehind
  <2>3. CASE l = new
    <3>1. n <= cursor[q] /\ q \notin blind /\ cursor[q] \in Nat
      BY <1>5, <2>1, <2>3 DEF LogInv, LogTypes
    <3>2. ~Swept(q)
      BY <1>1, <1>5, <2>3
    <3>3. cursor[q] # 0
      BY <1>0, <3>1
    <3>4. PICK k \in stored : k[1] = q /\ k[2] >= cursor[q]
      BY <3>2, <3>3 DEF LogInv, Covered
    <3>5. k[2] <= pen[q] /\ k[2] \in Nat
      BY <1>0, <3>1, <3>4 DEF LogInv, PenAhead, Write, Lines
    <3>6. QED
      BY <1>0, <3>1, <3>4, <3>5
  <2>4. QED
    BY <2>2, <2>3
<1>12. QED
  BY <1>4, <1>6, <1>7, <1>8, <1>10, <1>11 DEF LogInv

LEMMA PollKeepsLog ==
    ASSUME LogInv, NEW r \in RunIds, Poll(r)
    PROVE  LogInv'
<1> DEFINE page == Page(r, cursor[r])
<1>0. LogTypes /\ cursor[r] \in Nat
  BY DEF LogInv, LogTypes
<1>1. PICK last \in page : last[2] = cursor'[r]
  <2>1. \E n \in {l[2] : l \in page} : \A l \in page : l[2] <= n
    BY <1>0, PageHasTop DEF Poll
  <2>2. cursor'[r] = CHOOSE n \in {l[2] : l \in page} : \A l \in page : l[2] <= n
    BY <1>0 DEF Poll, LogTypes
  <2> HIDE DEF page
  <2>3. cursor'[r] \in {l[2] : l \in page}
    BY <2>1, <2>2
  <2>4. QED
    BY <2>3
<1>2. /\ last \in stored /\ last[1] = r /\ last[2] \in Nat
      /\ \A l \in stored : l[1] = r /\ l[2] <= last[2] => l[2] <= cursor[r] \/ l \in page
  BY <1>0, PageTop
<1>3. /\ \A q \in RunIds : q # r => cursor'[q] = cursor[q]
      /\ stored' = stored /\ startedOn' = startedOn /\ pen' = pen /\ day' = day /\ blind' = blind
      /\ shown' = shown \cup {<<r, l[3]>> : l \in page}
  BY DEF Poll, LogInv, LogTypes, logRows
<1> HIDE DEF page
<1>4. LogTypes'
  <2>1. cursor' \in [RunIds -> Nat]
    <3>1. cursor'[r] \in Nat
      BY <1>1, <1>2
    <3>2. PICK x : cursor' = [cursor EXCEPT ![r] = x]
      BY Zenon DEF Poll
    <3>3. cursor \in [RunIds -> Nat] /\ x \in Nat
      BY <1>0, <3>1, <3>2 DEF LogTypes
    <3>4. QED
      BY <3>2, <3>3
  <2>2. said' = said
    BY DEF Poll
  <2>3. QED
    BY <1>0, <1>3, <2>1, <2>2 DEF LogTypes
<1>5. NotStarted'
  <2>1. startedOn[r] # NotYet
    BY <1>2 DEF LogInv, NotStarted
  <2>2. QED
    BY <1>3, <2>1 DEF LogInv, NotStarted
<1>6. PenAhead' /\ OneByKey'
  BY <1>3 DEF LogInv, PenAhead, OneByKey, Writing
<1>7. Covered'
  <2>1. \A q \in RunIds : Swept(q)' <=> Swept(q)
    BY <1>3 DEF Swept, Expired, Surplus, Newer
  <2>2. last[2] >= cursor'[r]
    <3> DEFINE number == last[2]
    <3>1. number \in Nat /\ cursor'[r] = number
      BY <1>1, <1>2
    <3>2. QED
      BY <3>1
  <2>3. QED
    BY <1>2, <1>3, <2>1, <2>2 DEF LogInv, Covered
<1>8. NothingBehind'
  <2>1. SUFFICES ASSUME NEW l \in stored, l[1] \notin blind, l[2] <= cursor'[l[1]]
                 PROVE  <<l[1], l[3]>> \in shown'
    BY <1>3 DEF NothingBehind
  <2>2. l[1] \in RunIds
    BY <1>0 DEF LogTypes, Lines
  <2>3. CASE l[1] = r
    <3>1. l[2] <= cursor[r] \/ l \in page
      BY <1>1, <1>2, <2>1, <2>3
    <3>2. QED
      BY <1>3, <2>1, <2>3, <3>1 DEF LogInv, NothingBehind
  <2>4. CASE l[1] # r
    BY <1>3, <2>1, <2>2, <2>4 DEF LogInv, NothingBehind
  <2>5. QED
    BY <2>3, <2>4
<1>9. QED
  BY <1>4, <1>5, <1>6, <1>7, <1>8 DEF LogInv

LEMMA LogInvKept == LogInv /\ [RunLogNext]_runLogVars => LogInv'
<1> SUFFICES ASSUME LogInv, [RunLogNext]_runLogVars PROVE LogInv'
  OBVIOUS
<1>0. LogTypes
  BY DEF LogInv
<1>1. ASSUME NEW r \in RunIds, Write(r) PROVE LogInv'
  <2>1. CASE stored' = Appended(r, pen[r] + 1, said[r] + 1)
    BY <1>1, <2>1, StoreKeepsLog
  <2>2. CASE UNCHANGED stored
    <3>1. pen[r] \in Nat /\ pen' = [pen EXCEPT ![r] = pen[r] + 1]
      BY <1>0, <1>1 DEF Write, Writing, LogTypes, NoPen, LostPen
    <3>2. /\ UNCHANGED <<startedOn, stored, cursor, shown, blind>> /\ day' = day
          /\ said' = [said EXCEPT ![r] = said[r] + 1]
      BY <1>1, <2>2 DEF Write
    <3>3. LogTypes'
      BY <1>0, <3>1, <3>2 DEF LogTypes, LostPen
    <3>4. \A l \in stored : l[1] = r /\ r \notin blind => l[2] <= pen[r] + 1
      <4>1. ASSUME NEW l \in stored, l[1] = r, r \notin blind PROVE l[2] <= pen[r] + 1
        <5>1. l[2] <= pen[r] /\ l[2] \in Nat
          BY <1>0, <1>1, <4>1 DEF LogInv, PenAhead, Write, LogTypes, Lines
        <5>2. QED
          BY <3>1, <5>1
      <4>2. QED
        BY <4>1
    <3>5. \A q \in RunIds : pen[q] = NoPen => pen'[q] = NoPen
      BY <1>0, <3>1 DEF LogTypes, NoPen
    <3>6. \A q \in RunIds : pen'[q] \in {pen[q], NoPen, LostPen} \/ q \in blind' \/
              \A l \in stored : l[1] = q => l[2] <= pen'[q]
      BY <1>0, <3>1, <3>2, <3>4 DEF LogTypes
    <3>7. day' >= day
      BY <1>0, <3>2 DEF LogTypes
    <3>8. QED
      BY <3>2, <3>3, <3>5, <3>6, <3>7, QuietLogStep
  <2>3. QED
    BY <1>1, <2>1, <2>2 DEF Write
<1>2. ASSUME NEW r \in RunIds, PutDown(r) PROVE LogInv'
  <2>1. /\ pen' = [pen EXCEPT ![r] = NoPen]
        /\ UNCHANGED <<day, startedOn, stored, said, cursor, shown, blind>>
    BY <1>2 DEF PutDown, logRows
  <2>2. LogTypes'
    BY <1>0, <2>1 DEF LogTypes, NoPen, LostPen
  <2>3. \A q \in RunIds : pen'[q] \in {pen[q], NoPen} /\ day' >= day
    BY <1>0, <2>1 DEF LogTypes
  <2>4. QED
    BY <2>1, <2>2, <2>3, <1>0, QuietLogStep DEF LogTypes
<1>3. ASSUME Crash PROVE LogInv'
  <2>1. /\ pen' = [r \in RunIds |-> IF Writing(r) THEN LostPen ELSE pen[r]]
        /\ UNCHANGED <<day, startedOn, stored, said, cursor, shown, blind>>
    BY <1>3 DEF Crash, logRows
  <2>2. LogTypes'
    BY <1>0, <2>1 DEF LogTypes, LostPen
  <2>3. \A q \in RunIds : pen'[q] \in {pen[q], LostPen} /\ (pen[q] = NoPen => pen'[q] = NoPen)
    BY <2>1 DEF Writing
  <2>4. day' >= day
    BY <1>0, <2>1 DEF LogTypes
  <2>5. QED
    BY <2>1, <2>2, <2>3, <2>4, QuietLogStep
<1>4. ASSUME NEW r \in RunIds, Resume(r) PROVE LogInv'
  <2>1. /\ UNCHANGED <<day, startedOn, stored, said, cursor, shown>> /\ pen[r] = LostPen
        /\ blind \subseteq blind'
    BY <1>4 DEF Resume, logRows
  <2>2. PICK n \in Nat : /\ pen' = [pen EXCEPT ![r] = n]
                         /\ r \in blind' \/ \A l \in stored : l[1] = r => l[2] <= n
    <3>1. CASE pen' = [pen EXCEPT ![r] = LastSeq(r)]
      BY <1>0, <3>1, LastSeqIs
    <3>2. CASE pen' = [pen EXCEPT ![r] = 0] /\ blind' = blind \cup {r}
      BY <3>2
    <3>3. QED
      BY <1>4, <3>1, <3>2 DEF Resume
  <2>3. LogTypes'
    BY <1>0, <2>1, <2>2 DEF LogTypes, LostPen
  <2>4. \A q \in RunIds : pen[q] = NoPen => pen'[q] = NoPen
    BY <1>0, <2>1, <2>2 DEF LogTypes, NoPen, LostPen
  <2>5. \A q \in RunIds : pen'[q] \in {pen[q], NoPen, LostPen} \/ q \in blind' \/
            \A l \in stored : l[1] = q => l[2] <= pen'[q]
    BY <1>0, <2>2 DEF LogTypes
  <2>6. day' >= day
    BY <1>0, <2>1 DEF LogTypes
  <2>7. QED
    BY <2>1, <2>3, <2>4, <2>5, <2>6, QuietLogStep
<1>5. ASSUME NextDay PROVE LogInv'
  <2>1. day' = day + 1 /\ UNCHANGED <<startedOn, stored, pen, said, cursor, shown, blind>>
    BY <1>5 DEF NextDay, logRows
  <2>2. LogTypes' /\ day' >= day
    BY <1>0, <2>1 DEF LogTypes
  <2>3. QED
    BY <2>1, <2>2, QuietLogStep
<1>6. ASSUME UNCHANGED runLogVars PROVE LogInv'
  <2>1. UNCHANGED <<day, startedOn, stored, pen, said, cursor, shown, blind>>
    BY <1>6 DEF runLogVars, logRows
  <2>2. LogTypes' /\ day' >= day
    BY <1>0, <2>1 DEF LogTypes
  <2>3. QED
    BY <2>1, <2>2, QuietLogStep
<1>7. QED
  BY <1>1, <1>2, <1>3, <1>4, <1>5, <1>6, StartKeepsLog, PollKeepsLog DEF RunLogNext

\* The run log keeps its invariant through failed writes, restarts, retention and polls.
THEOREM RunLogInvariant == RunLogSpec => []LogInv
<1>1. RunLogInit => LogInv
  BY LogStarts
<1>2. LogInv /\ [RunLogNext]_runLogVars => LogInv'
  BY LogInvKept
<1>3. QED
  BY <1>1, <1>2, PTL DEF RunLogSpec

\* The screen misses no stored line, whatever the page size, the retention and the restarts:
\* what stands at or before its cursor it has shown.
THEOREM ScreenMissesNothing == RunLogSpec => []NothingBehind
<1>1. LogInv => NothingBehind
  BY DEF LogInv
<1>2. QED
  BY <1>1, RunLogInvariant, PTL

\* A stored line is never written over, whatever was lost, restarted or cleared out before:
\* only a pen that could not read the last number does that.
THEOREM LinesNotOverwritten == RunLogSpec => LinesKept
<1> DEFINE Kept == \A l \in stored : l[1] \notin blind' =>
                       \A k \in stored' : <<k[1], k[2]>> = <<l[1], l[2]>> => k = l
<1>1. LogInv /\ [RunLogNext]_runLogVars => [Kept]_runLogVars
  <2> SUFFICES ASSUME LogInv, [RunLogNext]_runLogVars
               PROVE  Kept
    OBVIOUS
  <2>1. OneByKey
    BY DEF LogInv
  <2>2. ASSUME stored' = stored PROVE Kept
    BY <2>1, <2>2 DEF OneByKey
  <2>3. ASSUME NEW q \in RunIds, Write(q), stored' = Appended(q, pen[q] + 1, said[q] + 1) PROVE Kept
    <3>1. /\ pen[q] \in Nat /\ said[q] + 1 \in Nat /\ pen[q] + 1 \in Nat /\ blind' = blind
          /\ stored \in SUBSET Lines
      BY <2>3 DEF LogInv, LogTypes, Write, Writing, NoPen, LostPen
    <3>2. \A k \in stored' : k = <<q, pen[q] + 1, said[q] + 1>> \/ k \in stored
      BY <2>3, <3>1, AppendedKeeps DEF LogInv
    <3>3. SUFFICES ASSUME NEW l \in stored, l[1] \notin blind, NEW k \in stored', k[1] = l[1], k[2] = l[2]
                   PROVE  k = l
      BY <3>1
    <3>4. CASE k \in stored
      BY <2>1, <3>3, <3>4 DEF OneByKey
    <3>5. CASE k = <<q, pen[q] + 1, said[q] + 1>>
      <4>1. l[1] = q /\ l[2] = pen[q] + 1
        BY <3>3, <3>5
      <4>2. l[2] <= pen[q]
        BY <2>3, <3>3, <4>1 DEF LogInv, PenAhead, Write
      <4>3. QED
        BY <3>1, <4>1, <4>2
    <3>6. QED
      BY <3>2, <3>4, <3>5
  <2>4. ASSUME NEW q \in RunIds, Write(q) PROVE Kept
    BY <2>2, <2>3, <2>4 DEF Write
  <2>5. QED
    BY <2>2, <2>4 DEF RunLogNext, Start, PutDown, Resume, Poll, Crash, NextDay, logRows, runLogVars
<1>2. QED
  BY <1>1, RunLogInvariant, PTL DEF RunLogSpec, LinesKept

=============================================================================
