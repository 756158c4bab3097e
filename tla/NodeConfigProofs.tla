-------------------------- MODULE NodeConfigProofs --------------------------
(***************************************************************************)
(* What the files of nodes and the table of users promise each other while *)
(* commands run at the same time, for any number of users, nodes, commands *)
(* and failures.                                                           *)
(***************************************************************************)
EXTENDS NodeConfig, TLAPS

-----------------------------------------------------------------------------
(* Partial functions.                                                        *)

Partial(D, S) == UNION {[E -> S] : E \in SUBSET D}

LEMMA PartialMeans ==
  ASSUME NEW D, NEW S, NEW f
  PROVE  f \in Partial(D, S) <=> IsPartial(f, D, S)
  BY DEF Partial, IsPartial

LEMMA PartialFacts ==
  ASSUME NEW D, NEW S, NEW f \in Partial(D, S)
  PROVE  /\ DOMAIN f \subseteq D /\ f \in [DOMAIN f -> S]
         /\ \A t \in DOMAIN f : f[t] \in S
  BY DEF Partial

LEMMA WithTyped ==
  ASSUME NEW D, NEW S, NEW f \in Partial(D, S), NEW t \in D, NEW v \in S
  PROVE  With(f, t, v) \in Partial(D, S)
<1>1. DOMAIN f \subseteq D /\ f \in [DOMAIN f -> S]
  BY PartialFacts
<1>2. With(f, t, v) \in [DOMAIN f \cup {t} -> S] /\ DOMAIN f \cup {t} \in SUBSET D
  BY <1>1 DEF With
<1>3. QED
  BY <1>2 DEF Partial

LEMMA WithoutMeans ==
  ASSUME NEW f, NEW t
  PROVE  /\ DOMAIN Without(f, t) = DOMAIN f \ {t}
         /\ \A s \in DOMAIN f \ {t} : Without(f, t)[s] = f[s]
  BY DEF Without, Restrict

LEMMA WithoutTyped ==
  ASSUME NEW D, NEW S, NEW f \in Partial(D, S), NEW t
  PROVE  Without(f, t) \in Partial(D, S)
<1>1. DOMAIN f \subseteq D /\ f \in [DOMAIN f -> S]
  BY PartialFacts
<1>2. Without(f, t) \in [DOMAIN f \ {t} -> S] /\ DOMAIN f \ {t} \in SUBSET D
  BY <1>1 DEF Without, Restrict
<1>3. QED
  BY <1>2 DEF Partial

LEMMA NothingFacts ==
  ASSUME NEW D, NEW S
  PROVE  Nothing \in Partial(D, S) /\ DOMAIN Nothing = {}
<1>1. Nothing \in [{} -> S] /\ {} \in SUBSET D
  BY DEF Nothing
<1>2. QED
  BY <1>1 DEF Partial

-----------------------------------------------------------------------------
(* Commands under way.                                                       *)

NodeJob == [cmd : NodeCmds, tag : Tags,
            pc : {"config", "load", "cut", "put", "certs", "reload", "list", "clean"},
            entry : Entry, copy : Partial(Tags, Entry), todo : Partial(Users, SUBSET Tags)]
RowJob == [cmd : {"grant", "revoke"}, tag : Tags, user : Users, pc : {"read", "write", "sync"},
           exist : SUBSET Tags, row : Row]
PickJob == [cmd : {"pick"}, user : Users, pc : {"write", "sync"}, exist : SUBSET Tags]
SyncJob == [cmd |-> "sync", pc |-> "sync"]
Job == {job \in NodeJob : job.pc \in {"certs", "list", "clean"} => job.cmd = "del"}
         \cup RowJob \cup PickJob \cup {SyncJob, Idle}

Request == [cmd : {"ask"}, pc : {"address", "key", "link"}, tag : Tags, node : Inbound,
            reuse : BOOLEAN, key : Keys, since : SUBSET (NodeCmds \cup {"cut"})]

(* The type invariant, with sets for the shapes of commands and requests.    *)
Types ==
  /\ inbounds \in Partial(Tags, Inbound) /\ meta \in Partial(Tags, Entry)
  /\ certs \subseteq Tags /\ rows \in [Users -> Row]
  /\ jobs \in [Jobs -> Job] /\ request \in Request \cup {Idle}
  /\ cmds \in 0..MaxCmds /\ faults \in 0..MaxFaults
  /\ disturbed \in BOOLEAN /\ dropped \subseteq Users /\ overtaken \subseteq Users

LEMMA JobMeans ==
  ASSUME NEW job, job # Idle
  PROVE  job \in Job => IsJob(job)
<1> SUFFICES ASSUME job \in Job PROVE IsJob(job)
  OBVIOUS
<1>1. CASE job \in NodeJob
  <2>1. job.cmd \in NodeCmds
    BY <1>1 DEF NodeJob
  <2>2. /\ job = [cmd |-> job.cmd, tag |-> job.tag, pc |-> job.pc, entry |-> job.entry,
                   copy |-> job.copy, todo |-> job.todo]
        /\ job.pc \in {"config", "load", "cut", "put", "certs", "reload", "list", "clean"}
        /\ job.tag \in Tags /\ job.entry \in Entry
        /\ job.copy \in Partial(Tags, Entry) /\ job.todo \in Partial(Users, SUBSET Tags)
    BY <1>1 DEF NodeJob
  <2>3. job.pc \in {"certs", "list", "clean"} => job.cmd = "del"
    BY <2>1 DEF Job, RowJob, PickJob, SyncJob, NodeCmds
  <2>4. IsPartial(job.copy, Tags, Entry) /\ IsPartial(job.todo, Users, SUBSET Tags)
    BY <2>2, PartialMeans
  <2>5. QED
    BY <2>1, <2>2, <2>3, <2>4 DEF IsJob, NodeCmds
<1>2. CASE job \in RowJob
  BY <1>2 DEF RowJob, IsJob, NodeCmds
<1>3. CASE job \in PickJob
  BY <1>3 DEF PickJob, IsJob, NodeCmds
<1>4. CASE job = SyncJob
  BY <1>4 DEF SyncJob, IsJob, NodeCmds
<1>5. QED
  BY <1>1, <1>2, <1>3, <1>4 DEF Job

LEMMA TypesMean == Types => TypeOK
<1> SUFFICES ASSUME Types PROVE TypeOK
  OBVIOUS
<1>1. IsPartial(inbounds, Tags, Inbound) /\ IsPartial(meta, Tags, Entry)
  BY PartialMeans DEF Types
<1>2. jobs = [j \in Jobs |-> jobs[j]] /\ \A j \in Jobs : jobs[j] # Idle => IsJob(jobs[j])
  BY JobMeans DEF Types
<1>3. request # Idle => IsRequest(request)
  BY DEF Types, Request, IsRequest
<1>4. QED
  BY <1>1, <1>2, <1>3 DEF Types, TypeOK

(* A subscription under way, after a command has saved or cut something.     *)
NotedOf(r, what) == [r EXCEPT !.since = @ \cup {what}]

LEMMA NotedOfFacts ==
  ASSUME NEW r \in Request, NEW what \in NodeCmds \cup {"cut"}
  PROVE  /\ NotedOf(r, what) \in Request /\ r # Idle /\ NotedOf(r, what) # Idle
         /\ NotedOf(r, what).since = r.since \cup {what}
         /\ NotedOf(r, what).pc = r.pc /\ NotedOf(r, what).tag = r.tag
         /\ NotedOf(r, what).node = r.node /\ NotedOf(r, what).reuse = r.reuse
         /\ NotedOf(r, what).key = r.key
<1>1. NotedOf(r, what) = [cmd |-> r.cmd, pc |-> r.pc, tag |-> r.tag, node |-> r.node,
                          reuse |-> r.reuse, key |-> r.key, since |-> r.since \cup {what}]
  BY DEF NotedOf, Request
<1>2. NotedOf(r, what) \in Request
  BY <1>1 DEF Request
<1>3. \A q \in Request : q # Idle
  BY DEF Request, Idle
<1>4. QED
  BY <1>1, <1>2, <1>3

NodePcs == {"config", "load", "cut", "put", "certs", "reload", "list", "clean"}
DelPcs == {"certs", "list", "clean"}

\* What a step says of the command that is at it.
LEMMA JobAt ==
  ASSUME jobs \in [Jobs -> Job], NEW j \in Jobs, NEW pc, At(j, pc)
  PROVE  /\ jobs[j].pc = pc /\ jobs[j] # Idle /\ jobs[j] \in Job
         /\ pc \in NodePcs => jobs[j] \in NodeJob /\ (pc \in DelPcs => jobs[j].cmd = "del")
         /\ pc = "read" => jobs[j] \in RowJob
         /\ pc = "write" => jobs[j] \in RowJob \cup PickJob
         /\ pc = "sync" => jobs[j] \in RowJob \cup PickJob \cup {SyncJob}
<1>1. jobs[j].pc = pc /\ jobs[j] # Idle /\ jobs[j] \in Job
  BY DEF At
<1>2. CASE jobs[j] \in NodeJob
  BY <1>1, <1>2 DEF NodeJob, NodePcs, DelPcs, Job, RowJob, PickJob, SyncJob, NodeCmds
<1>3. CASE jobs[j] \in RowJob
  BY <1>1, <1>3 DEF RowJob, NodePcs
<1>4. CASE jobs[j] \in PickJob
  BY <1>1, <1>4 DEF PickJob, NodePcs
<1>5. CASE jobs[j] = SyncJob
  BY <1>1, <1>5 DEF SyncJob, NodePcs
<1>6. QED
  BY <1>1, <1>2, <1>3, <1>4, <1>5 DEF Job

LEMMA NodeJobFields ==
  ASSUME NEW job \in NodeJob
  PROVE  /\ job = [cmd |-> job.cmd, tag |-> job.tag, pc |-> job.pc, entry |-> job.entry,
                   copy |-> job.copy, todo |-> job.todo]
         /\ job.cmd \in NodeCmds /\ job.tag \in Tags /\ job.pc \in NodePcs /\ job.entry \in Entry
         /\ job.copy \in Partial(Tags, Entry) /\ job.todo \in Partial(Users, SUBSET Tags)
  BY DEF NodeJob, NodePcs

LEMMA NodeJobMade ==
  ASSUME NEW cmd \in NodeCmds, NEW tag \in Tags, NEW pc \in NodePcs, pc \in DelPcs => cmd = "del",
         NEW entry \in Entry, NEW copy \in Partial(Tags, Entry),
         NEW todo \in Partial(Users, SUBSET Tags)
  PROVE  [cmd |-> cmd, tag |-> tag, pc |-> pc, entry |-> entry, copy |-> copy, todo |-> todo]
           \in NodeJob \cap Job
  BY DEF NodeJob, NodePcs, DelPcs, Job

\* The other commands stay, and the one that makes a step becomes job.
LEMMA JobStep ==
  ASSUME jobs \in [Jobs -> Job], NEW j \in Jobs, NEW job \in Job,
         jobs' = [jobs EXCEPT ![j] = job]
  PROVE  /\ jobs' \in [Jobs -> Job] /\ jobs'[j] = job
         /\ \A i \in Jobs \ {j} : jobs'[i] = jobs[i]
  OBVIOUS

LEMMA EndStep ==
  ASSUME jobs \in [Jobs -> Job], NEW j \in Jobs, End(j)
  PROVE  /\ jobs' \in [Jobs -> Job] /\ jobs'[j] = Idle
         /\ \A i \in Jobs \ {j} : jobs'[i] = jobs[i]
  BY DEF End, Job

\* A node command at another step.
LEMMA GoNode ==
  ASSUME jobs \in [Jobs -> Job], NEW j \in Jobs, jobs[j] \in NodeJob,
         NEW pc \in NodePcs, pc \in DelPcs => jobs[j].cmd = "del", Go(j, pc)
  PROVE  /\ jobs' \in [Jobs -> Job]
         /\ jobs'[j] = [cmd |-> jobs[j].cmd, tag |-> jobs[j].tag, pc |-> pc,
                        entry |-> jobs[j].entry, copy |-> jobs[j].copy, todo |-> jobs[j].todo]
         /\ \A i \in Jobs \ {j} : jobs'[i] = jobs[i]
<1> DEFINE job == [cmd |-> jobs[j].cmd, tag |-> jobs[j].tag, pc |-> pc,
                   entry |-> jobs[j].entry, copy |-> jobs[j].copy, todo |-> jobs[j].todo]
<1>1. [jobs[j] EXCEPT !.pc = pc] = job
  BY NodeJobFields
<1>2. jobs' = [jobs EXCEPT ![j] = job]
  BY <1>1 DEF Go
<1>3. job \in Job
  <2>1. /\ jobs[j].cmd \in NodeCmds /\ jobs[j].tag \in Tags /\ jobs[j].entry \in Entry
        /\ jobs[j].copy \in Partial(Tags, Entry) /\ jobs[j].todo \in Partial(Users, SUBSET Tags)
    BY NodeJobFields
  <2>2. QED
    BY <2>1, NodeJobMade
<1>4. QED
  BY <1>2, <1>3, JobStep

\* A command on a row at its next step.
LEMMA GoRow ==
  ASSUME jobs \in [Jobs -> Job], NEW j \in Jobs, jobs[j] \in RowJob \cup PickJob, Go(j, "sync")
  PROVE  /\ jobs' \in [Jobs -> Job]
         /\ jobs'[j] \in RowJob \cup PickJob /\ jobs'[j].pc = "sync"
         /\ jobs'[j].user = jobs[j].user /\ jobs'[j].cmd = jobs[j].cmd
         /\ \A i \in Jobs \ {j} : jobs'[i] = jobs[i]
<1> DEFINE job == [jobs[j] EXCEPT !.pc = "sync"]
<1>1. /\ job \in RowJob \cup PickJob /\ job.pc = "sync"
      /\ job.user = jobs[j].user /\ job.cmd = jobs[j].cmd
  BY DEF RowJob, PickJob
<1>2. jobs' = [jobs EXCEPT ![j] = job]
  BY DEF Go
<1>3. job \in Job
  BY <1>1 DEF Job
<1> HIDE DEF job
<1>4. QED
  BY <1>1, <1>2, <1>3, JobStep

-----------------------------------------------------------------------------
(* Types.                                                                    *)

LEMMA KeyFacts == /\ 0 \in Keys /\ OldKey \in Keys /\ NoEntry \in Entry
                  /\ \A k \in 0..MaxCmds : k \in Keys
  BY NodeAssumption DEF Keys, OldKey, NoEntry, Entry

LEMMA EntryFacts ==
  ASSUME NEW m \in Partial(Tags, Entry), NEW t
  PROVE  /\ EntryOf(m, t) \in Entry
         /\ \A v, r \in BOOLEAN : [EntryOf(m, t) EXCEPT !.reuse = v, !.relay = r] \in Entry
         /\ \A v \in BOOLEAN : [EntryOf(m, t) EXCEPT !.relay = v] \in Entry
<1>1. EntryOf(m, t) \in Entry
  BY KeyFacts, PartialFacts DEF EntryOf
<1>2. QED
  BY <1>1 DEF Entry

LEMMA TypesInit == Init => Types
<1> SUFFICES ASSUME Init PROVE Types
  OBVIOUS
<1> USE NodeAssumption DEF Init
<1>1. inbounds \in Partial(Tags, Inbound)
  BY DEF Partial
<1>2. ASSUME NEW t \in StartNodes PROVE [NoEntry EXCEPT !.key = inbounds[t].key] \in Entry
  BY <1>2 DEF NoEntry, Entry, Inbound
<1>3. meta \in [StartNodes -> Entry]
  BY <1>2
<1>4. meta \in Partial(Tags, Entry)
  BY <1>3 DEF Partial
<1>5. jobs \in [Jobs -> Job]
  BY DEF Job
<1>6. certs \subseteq Tags /\ rows \in [Users -> Row]
  OBVIOUS
<1>7. cmds \in 0..MaxCmds /\ faults \in 0..MaxFaults
  OBVIOUS
<1>8. request = Idle /\ disturbed \in BOOLEAN /\ dropped \subseteq Users /\ overtaken \subseteq Users
  OBVIOUS
<1>9. QED
  BY <1>1, <1>4, <1>5, <1>6, <1>7, <1>8 DEF Types

LEMMA NodeJobLoaded ==
  ASSUME NEW job \in NodeJob, NEW entry
  PROVE  [job EXCEPT !.pc = "load", !.entry = entry] =
           [cmd |-> job.cmd, tag |-> job.tag, pc |-> "load", entry |-> entry,
            copy |-> job.copy, todo |-> job.todo]
<1> DEFINE once == [job EXCEPT !.pc = "load"]
<1>1. once = [cmd |-> job.cmd, tag |-> job.tag, pc |-> "load", entry |-> job.entry,
              copy |-> job.copy, todo |-> job.todo]
  BY DEF NodeJob
<1>2. [once EXCEPT !.entry = entry] =
        [cmd |-> job.cmd, tag |-> job.tag, pc |-> "load", entry |-> entry,
         copy |-> job.copy, todo |-> job.todo]
  <2> HIDE DEF once
  <2> QED BY <1>1
<1>3. [job EXCEPT !.pc = "load", !.entry = entry] = [once EXCEPT !.entry = entry]
  OBVIOUS
<1>4. QED
  BY <1>2, <1>3

\* A subscription once a command on its node has saved.
RequestAfter(j) ==
  IF request # Idle /\ request.tag = jobs[j].tag THEN NotedOf(request, jobs[j].cmd) ELSE request

\* What a node command has done when it leaves the lock, or why it ends.
LEMMA SavedStep ==
  ASSUME Types, NEW j \in Jobs, jobs[j] \in NodeJob, NEW ib \in Partial(Tags, Inbound),
         NEW cs \in SUBSET Tags, NEW entry \in Entry, Saved(j, ib, cs, entry)
  PROVE  /\ Types' /\ certs' = cs /\ UNCHANGED <<meta, rows, cmds, faults, dropped, overtaken>>
         /\ \A i \in Jobs \ {j} : jobs'[i] = jobs[i]
         /\ \/ /\ Accepts(ib, cs) /\ inbounds' = ib
               /\ jobs'[j] = [cmd |-> jobs[j].cmd, tag |-> jobs[j].tag, pc |-> "load",
                              entry |-> entry, copy |-> jobs[j].copy, todo |-> jobs[j].todo]
               /\ disturbed' = (disturbed \/ Trailing # {}) /\ request' = RequestAfter(j)
            \/ ~Accepts(ib, cs) /\ jobs'[j] = Idle /\ UNCHANGED <<inbounds, disturbed, request>>
<1>0. jobs \in [Jobs -> Job]
  BY DEF Types
<1>1. certs' = cs /\ UNCHANGED <<meta, rows, cmds, faults, dropped, overtaken>>
  BY DEF Saved
<1>2. CASE Accepts(ib, cs)
  <2> DEFINE job == [cmd |-> jobs[j].cmd, tag |-> jobs[j].tag, pc |-> "load",
                     entry |-> entry, copy |-> jobs[j].copy, todo |-> jobs[j].todo]
  <2>1. /\ inbounds' = ib /\ disturbed' = (disturbed \/ Trailing # {}) /\ request' = RequestAfter(j)
        /\ jobs' = [jobs EXCEPT ![j].pc = "load", ![j].entry = entry]
    BY <1>2 DEF Saved, Noted, NotedOf, RequestAfter
  <2>2. [jobs[j] EXCEPT !.pc = "load", !.entry = entry] = job
    BY NodeJobLoaded
  <2> HIDE DEF job
  <2>3. jobs' = [jobs EXCEPT ![j] = job]
    <3>1. jobs' = [jobs EXCEPT ![j] = [jobs[j] EXCEPT !.pc = "load", !.entry = entry]]
      BY <1>0, <2>1
    <3>2. QED
      BY <3>1, <2>2
  <2> USE DEF job
  <2>4. job \in Job
    <3>1. /\ jobs[j].cmd \in NodeCmds /\ jobs[j].tag \in Tags
          /\ jobs[j].copy \in Partial(Tags, Entry) /\ jobs[j].todo \in Partial(Users, SUBSET Tags)
          /\ "load" \in NodePcs /\ "load" \notin DelPcs
      BY NodeJobFields DEF NodePcs, DelPcs
    <3>2. QED
      BY <3>1, NodeJobMade
  <2>5. /\ jobs' \in [Jobs -> Job] /\ jobs'[j] = job
        /\ \A i \in Jobs \ {j} : jobs'[i] = jobs[i]
    BY <1>0, <2>3, <2>4, JobStep
  <2>6. RequestAfter(j) \in Request \cup {Idle}
    BY NodeJobFields, NotedOfFacts DEF RequestAfter, Types
  <2>7. Types'
    BY <1>1, <2>1, <2>5, <2>6 DEF Types
  <2>8. QED
    BY <1>1, <1>2, <2>1, <2>5, <2>7
<1>3. CASE ~Accepts(ib, cs)
  <2>1. End(j) /\ UNCHANGED <<inbounds, disturbed, request>>
    BY <1>3 DEF Saved
  <2>2. /\ jobs' \in [Jobs -> Job] /\ jobs'[j] = Idle
        /\ \A i \in Jobs \ {j} : jobs'[i] = jobs[i]
    BY <1>0, <2>1, EndStep
  <2>3. Types'
    BY <1>1, <2>1, <2>2 DEF Types
  <2>4. QED
    BY <1>1, <1>3, <2>1, <2>2, <2>3
<1>4. QED
  BY <1>2, <1>3

\* The other commands are left alone.
Only(j) == \A i \in Jobs \ {j} : jobs'[i] = jobs[i]

\* A node command that goes on, with another step, copy or list to do.
NodeNow(job, pc, copy, todo) ==
  [cmd |-> job.cmd, tag |-> job.tag, pc |-> pc, entry |-> job.entry, copy |-> copy, todo |-> todo]

LEMMA NodeNowFacts ==
  ASSUME NEW job \in NodeJob, NEW pc \in NodePcs, pc \in DelPcs => job.cmd = "del",
         NEW copy \in Partial(Tags, Entry), NEW todo \in Partial(Users, SUBSET Tags)
  PROVE  /\ NodeNow(job, pc, copy, todo) \in NodeJob \cap Job
         /\ NodeNow(job, pc, copy, todo).pc = pc
         /\ NodeNow(job, pc, copy, todo).cmd = job.cmd
         /\ NodeNow(job, pc, copy, todo).tag = job.tag
         /\ NodeNow(job, pc, copy, todo).entry = job.entry
         /\ NodeNow(job, pc, copy, todo).copy = copy
         /\ NodeNow(job, pc, copy, todo) # Idle
<1>1. NodeNow(job, pc, copy, todo) \in NodeJob \cap Job
  <2>1. job.cmd \in NodeCmds /\ job.tag \in Tags /\ job.entry \in Entry
    BY NodeJobFields
  <2>2. QED
    BY <2>1, NodeJobMade DEF NodeNow
<1>2. Idle.cmd = "idle" /\ "idle" \notin NodeCmds
  BY DEF Idle, NodeCmds
<1>3. job.cmd \in NodeCmds
  BY NodeJobFields
<1>4. NodeNow(job, pc, copy, todo).cmd = job.cmd
  BY DEF NodeNow
<1>5. QED
  BY <1>1, <1>2, <1>3, <1>4 DEF NodeNow

\* A step that changes nothing but a command.
LEMMA TypesKept ==
  ASSUME Types, jobs' \in [Jobs -> Job], cmds' \in 0..MaxCmds, faults' \in 0..MaxFaults,
         UNCHANGED <<files, rows, request, history>>
  PROVE  Types'
  BY DEF Types, files, history

LEMMA FaultTypes == Types /\ Fault => faults' \in 0..MaxFaults
  BY NodeAssumption DEF Types, Fault

LEMMA BeginStep ==
  ASSUME Types, NEW j \in Jobs, NodeCommand(j) \/ GrantCommand(j) \/ Picker(j) \/ SyncCommand(j)
  PROVE  /\ Types' /\ UNCHANGED <<files, rows, request, faults, history>>
         /\ jobs[j] = Idle /\ jobs'[j].pc \in {"config", "read", "write", "sync"} /\ Only(j)
         /\ jobs'[j].pc = "sync" => jobs'[j].cmd = "sync"
<1>0. jobs \in [Jobs -> Job] /\ cmds \in 0..MaxCmds /\ DOMAIN inbounds \subseteq Tags
  BY PartialFacts DEF Types
<1>1. jobs[j] = Idle /\ UNCHANGED <<files, rows, request, faults, history>>
  BY DEF NodeCommand, GrantCommand, Picker, SyncCommand, Begin
<1>2. cmds' \in 0..MaxCmds
  BY <1>0, NodeAssumption DEF NodeCommand, GrantCommand, Picker, SyncCommand, Begin
<1>3. faults' \in 0..MaxFaults
  BY <1>1 DEF Types
<1>4. PICK job \in Job : /\ job.pc \in {"config", "read", "write", "sync"}
                         /\ job.pc = "sync" => job.cmd = "sync"
                         /\ jobs' = [jobs EXCEPT ![j] = job]
  <2>1. CASE NodeCommand(j)
    <3>1. PICK cmd \in NodeCmds, t \in Tags :
            jobs' = [jobs EXCEPT ![j] = [cmd |-> cmd, tag |-> t, pc |-> "config",
                       entry |-> [NoEntry EXCEPT !.key = cmds + 1],
                       copy |-> Nothing, todo |-> Nothing]]
      BY <2>1 DEF NodeCommand
    <3> DEFINE entry == [NoEntry EXCEPT !.key = cmds + 1]
    <3>2. /\ "config" \in NodePcs /\ "config" \notin DelPcs
          /\ Nothing \in Partial(Tags, Entry) /\ Nothing \in Partial(Users, SUBSET Tags)
      BY NothingFacts DEF NodePcs, DelPcs
    <3>3. entry \in Entry
      <4>1. cmds + 1 \in Keys
        BY <1>0, NodeAssumption DEF Keys, OldKey
      <4>2. QED
        BY <4>1 DEF NoEntry, Entry
    <3> HIDE DEF entry
    <3>4. [cmd |-> cmd, tag |-> t, pc |-> "config", entry |-> entry, copy |-> Nothing,
           todo |-> Nothing] \in Job
      BY <3>2, <3>3, NodeJobMade
    <3>5. [cmd |-> cmd, tag |-> t, pc |-> "config", entry |-> entry, copy |-> Nothing,
           todo |-> Nothing].pc = "config"
      OBVIOUS
    <3>6. QED
      BY <3>1, <3>4, <3>5 DEF entry
  <2>2. CASE GrantCommand(j)
    <3>1. PICK cmd \in {"grant", "revoke"}, u \in Users, t \in Tags :
            jobs' = [jobs EXCEPT ![j] = [cmd |-> cmd, tag |-> t, user |-> u, pc |-> "read",
                                         exist |-> DOMAIN inbounds, row |-> rows[u]]]
      BY <2>2 DEF GrantCommand
    <3>2. rows[u] \in Row
      BY DEF Types
    <3>3. [cmd |-> cmd, tag |-> t, user |-> u, pc |-> "read",
           exist |-> DOMAIN inbounds, row |-> rows[u]] \in Job
      BY <1>0, <3>2 DEF Job, RowJob
    <3>4. QED
      BY <3>1, <3>3
  <2>3. CASE Picker(j)
    <3>1. PICK u \in Users :
            jobs' = [jobs EXCEPT ![j] = [cmd |-> "pick", user |-> u, pc |-> "write",
                                         exist |-> DOMAIN inbounds]]
      BY <2>3 DEF Picker
    <3>2. [cmd |-> "pick", user |-> u, pc |-> "write", exist |-> DOMAIN inbounds] \in Job
      BY <1>0 DEF Job, PickJob
    <3>3. QED
      BY <3>1, <3>2
  <2>4. CASE SyncCommand(j)
    BY <2>4 DEF SyncCommand, Job, SyncJob
  <2>5. QED
    BY <2>1, <2>2, <2>3, <2>4
<1>5. jobs' \in [Jobs -> Job] /\ jobs'[j] = job /\ Only(j)
  BY <1>0, <1>4, JobStep DEF Only
<1>6. QED
  BY <1>1, <1>2, <1>3, <1>4, <1>5, TypesKept

\* The two files agree, for any two such files.
Same(m, ib) ==
  /\ DOMAIN m = DOMAIN ib
  /\ \A t \in DOMAIN ib :
       /\ m[t].reuse = ib[t].reuse
       /\ ib[t].kind = "reality" => m[t].key = ib[t].key

\* What an edit leaves of a node, and every command of the other nodes.
SameNode(t, ib) ==
  /\ t \in DOMAIN ib <=> t \in DOMAIN inbounds
  /\ t \in DOMAIN inbounds => ib[t].kind = inbounds[t].kind /\ ib[t].key = inbounds[t].key
OtherNode(t, ib) ==
  /\ t \in DOMAIN ib <=> t \in DOMAIN inbounds
  /\ t \in DOMAIN inbounds => ib[t] = inbounds[t]

\* What a node command makes of the files: ib and cs under the lock, entry
\* after it.  It only takes certificates away later, names nobody new, and
\* leaves the files in agreement once it is through.
Change(j, ib, cs, entry) ==
  /\ ib \in Partial(Tags, Inbound) /\ cs \in SUBSET Tags /\ entry \in Entry
  /\ certs \subseteq cs
  /\ jobs[j].cmd = "del" => jobs[j].tag \notin DOMAIN ib
  /\ jobs[j].cmd = "add" => jobs[j].tag \notin DOMAIN inbounds
  /\ jobs[j].cmd = "edit" => SameNode(jobs[j].tag, ib)
  /\ \A t : t # jobs[j].tag => OtherNode(t, ib)
  /\ \A t \in DOMAIN ib : \A u \in ib[t].listed :
       t \in DOMAIN inbounds /\ u \in inbounds[t].listed
  /\ Same(meta, inbounds) =>
       IF jobs[j].cmd = "del" THEN Same(Without(meta, jobs[j].tag), ib)
       ELSE Same(With(meta, jobs[j].tag, entry), ib)

LEMMA AddChange ==
  ASSUME Types, NEW j \in Jobs, AddNode(j)
  PROVE  \E ib, cs, entry : Change(j, ib, cs, entry) /\ Saved(j, ib, cs, entry)
<1> DEFINE t == jobs[j].tag
<1>1. jobs[j] \in NodeJob /\ jobs[j].cmd = "add" /\ t \notin DOMAIN inbounds
  BY JobAt DEF Types, AddNode, NodePcs
<1>2. t \in Tags /\ certs \subseteq Tags
  BY <1>1, NodeJobFields DEF Types
<1>3. inbounds \in Partial(Tags, Inbound) /\ meta \in Partial(Tags, Entry)
  BY DEF Types
<1> DEFINE made == jobs[j].entry.key
<1>4. PICK kind \in Kinds, v \in BOOLEAN, r \in BOOLEAN :
        Saved(j, With(inbounds, t, [kind |-> kind, key |-> IF kind = "reality" THEN made ELSE 0,
                                    reuse |-> v, listed |-> {}]),
              IF kind = "tls" THEN certs \cup {t} ELSE certs,
              [key |-> IF kind = "reality" THEN IF kind = "reality" THEN made ELSE 0
                       ELSE EntryOf(meta, t).key,
               reuse |-> v, relay |-> r])
  BY DEF AddNode
<1>a. made \in Keys
  BY <1>1, NodeJobFields DEF Entry
<1> HIDE DEF made
<1> DEFINE node == [kind |-> kind, key |-> IF kind = "reality" THEN made ELSE 0,
                    reuse |-> v, listed |-> {}]
           ib == With(inbounds, t, node)
           cs == IF kind = "tls" THEN certs \cup {t} ELSE certs
           entry == [key |-> IF kind = "reality" THEN IF kind = "reality" THEN made ELSE 0
                             ELSE EntryOf(meta, t).key,
                     reuse |-> v, relay |-> r]
<1>5. node \in Inbound /\ node.listed = {}
  BY <1>a, KeyFacts DEF Inbound
<1>6. entry \in Entry /\ entry.reuse = node.reuse /\ (node.kind = "reality" => entry.key = node.key)
  <2>1. EntryOf(meta, t).key \in Keys
    BY <1>3, EntryFacts DEF Entry
  <2>2. QED
    BY <1>a, <2>1, KeyFacts DEF Entry
<1> HIDE DEF node, entry
<1>7. /\ ib \in Partial(Tags, Inbound) /\ DOMAIN ib = DOMAIN inbounds \cup {t} /\ ib[t] = node
      /\ \A s \in DOMAIN inbounds \ {t} : ib[s] = inbounds[s]
  BY <1>2, <1>3, <1>5, WithTyped DEF With
<1>8. /\ DOMAIN With(meta, t, entry) = DOMAIN meta \cup {t} /\ With(meta, t, entry)[t] = entry
      /\ \A s \in DOMAIN meta \ {t} : With(meta, t, entry)[s] = meta[s]
  BY DEF With
<1>9. cs \in SUBSET Tags /\ certs \subseteq cs
  BY <1>2
<1>10. Saved(j, ib, cs, entry)
  BY <1>4 DEF node, entry
<1> HIDE DEF ib, cs, t
<1>11. Same(meta, inbounds) => Same(With(meta, t, entry), ib)
  BY <1>1, <1>6, <1>7, <1>8 DEF Same
<1>12. \A s \in DOMAIN ib : \A u \in ib[s].listed : s \in DOMAIN inbounds /\ u \in inbounds[s].listed
  BY <1>5, <1>7
<1>13. \A s : s # t => OtherNode(s, ib)
  BY <1>7 DEF OtherNode
<1>14. Change(j, ib, cs, entry)
  BY <1>1, <1>6, <1>7, <1>9, <1>11, <1>12, <1>13 DEF Change, t
<1>15. QED
  BY <1>10, <1>14

LEMMA EditChange ==
  ASSUME Types, NEW j \in Jobs, EditNode(j)
  PROVE  \E ib, cs, entry : Change(j, ib, cs, entry) /\ Saved(j, ib, cs, entry)
<1> DEFINE t == jobs[j].tag
<1>1. jobs[j] \in NodeJob /\ jobs[j].cmd = "edit" /\ t \in DOMAIN inbounds
  BY JobAt DEF Types, EditNode, NodePcs
<1>2. t \in Tags /\ certs \subseteq Tags
  BY <1>1, NodeJobFields DEF Types
<1>3. inbounds \in Partial(Tags, Inbound) /\ meta \in Partial(Tags, Entry)
  BY DEF Types
<1>4. PICK v \in BOOLEAN, r \in BOOLEAN :
        \/ Saved(j, [inbounds EXCEPT ![t].reuse = v], certs,
                 [Kept(t) EXCEPT !.reuse = v, !.relay = r])
        \/ Saved(j, inbounds, certs, [Kept(t) EXCEPT !.relay = r])
  BY DEF EditNode
<1>5. inbounds[t] \in Inbound /\ DOMAIN inbounds \subseteq Tags /\ inbounds \in [DOMAIN inbounds -> Inbound]
  BY <1>1, <1>3, PartialFacts
<1>6. ASSUME NEW ib \in Partial(Tags, Inbound), NEW entry \in Entry, DOMAIN ib = DOMAIN inbounds,
             \A s \in DOMAIN inbounds \ {t} : ib[s] = inbounds[s],
             ib[t].kind = inbounds[t].kind, ib[t].key = inbounds[t].key,
             ib[t].listed = inbounds[t].listed,
             entry.key = Kept(t).key,
             ib[t].reuse = inbounds[t].reuse => entry.reuse = Kept(t).reuse \/ entry.reuse = ib[t].reuse,
             ib[t].reuse # inbounds[t].reuse => entry.reuse = ib[t].reuse
      PROVE  Change(j, ib, certs, entry)
  <2>1. /\ DOMAIN With(meta, t, entry) = DOMAIN meta \cup {t} /\ With(meta, t, entry)[t] = entry
        /\ \A s \in DOMAIN meta \ {t} : With(meta, t, entry)[s] = meta[s]
    BY DEF With
  <2> HIDE DEF t
  <2>2. Same(meta, inbounds) => Kept(t) = meta[t] /\ Kept(t).reuse = inbounds[t].reuse
    BY <1>1 DEF Same, Kept, EntryOf
  <2>3. Same(meta, inbounds) => Same(With(meta, t, entry), ib)
    BY <1>1, <1>6, <2>1, <2>2 DEF Same
  <2>4. \A s \in DOMAIN ib : \A u \in ib[s].listed : s \in DOMAIN inbounds /\ u \in inbounds[s].listed
    BY <1>6
  <2>5. SameNode(t, ib) /\ \A s : s # t => OtherNode(s, ib)
    BY <1>1, <1>6 DEF SameNode, OtherNode
  <2>6. QED
    BY <1>1, <1>2, <1>6, <2>3, <2>4, <2>5 DEF Change, t
<1>7. CASE Saved(j, [inbounds EXCEPT ![t].reuse = v], certs,
                 [Kept(t) EXCEPT !.reuse = v, !.relay = r])
  <2> DEFINE ib == [inbounds EXCEPT ![t].reuse = v]
             entry == [Kept(t) EXCEPT !.reuse = v, !.relay = r]
  <2>1. /\ ib \in [DOMAIN inbounds -> Inbound] /\ DOMAIN ib = DOMAIN inbounds
        /\ \A s \in DOMAIN inbounds \ {t} : ib[s] = inbounds[s]
        /\ ib[t].kind = inbounds[t].kind /\ ib[t].key = inbounds[t].key
        /\ ib[t].listed = inbounds[t].listed /\ ib[t].reuse = v
    BY <1>1, <1>5 DEF Inbound
  <2>2. ib \in Partial(Tags, Inbound)
    BY <1>5, <2>1 DEF Partial
  <2>3. entry \in Entry /\ entry.key = Kept(t).key /\ entry.reuse = v
    BY <1>3, EntryFacts DEF Kept, Entry
  <2> HIDE DEF ib, entry
  <2>4. Change(j, ib, certs, entry)
    BY <1>6, <2>1, <2>2, <2>3
  <2>5. QED
    BY <1>7, <2>4 DEF ib, entry
<1>8. CASE Saved(j, inbounds, certs, [Kept(t) EXCEPT !.relay = r])
  <2> DEFINE entry == [Kept(t) EXCEPT !.relay = r]
  <2>1. entry \in Entry /\ entry.key = Kept(t).key /\ entry.reuse = Kept(t).reuse
    BY <1>3, EntryFacts DEF Kept, Entry
  <2> HIDE DEF entry
  <2>2. Change(j, inbounds, certs, entry)
    BY <1>3, <1>6, <2>1
  <2>3. QED
    BY <1>8, <2>2 DEF entry
<1>9. QED
  BY <1>4, <1>7, <1>8

LEMMA DeleteChange ==
  ASSUME Types, NEW j \in Jobs, DeleteNode(j)
  PROVE  \E ib, cs, entry : Change(j, ib, cs, entry) /\ Saved(j, ib, cs, entry)
<1> DEFINE t == jobs[j].tag
<1>1. jobs[j].cmd = "del" /\ Saved(j, Without(inbounds, t), certs, NoEntry)
  BY DEF DeleteNode
<1>2. inbounds \in Partial(Tags, Inbound) /\ meta \in Partial(Tags, Entry) /\ certs \in SUBSET Tags
  BY DEF Types
<1> HIDE DEF t
<1>3. /\ Without(inbounds, t) \in Partial(Tags, Inbound)
      /\ DOMAIN Without(inbounds, t) = DOMAIN inbounds \ {t}
      /\ \A s \in DOMAIN inbounds \ {t} : Without(inbounds, t)[s] = inbounds[s]
  BY <1>2, WithoutTyped, WithoutMeans
<1>4. /\ DOMAIN Without(meta, t) = DOMAIN meta \ {t}
      /\ \A s \in DOMAIN meta \ {t} : Without(meta, t)[s] = meta[s]
  BY WithoutMeans
<1>5. Same(meta, inbounds) => Same(Without(meta, t), Without(inbounds, t))
  BY <1>3, <1>4 DEF Same
<1>6. \A s : s # t => OtherNode(s, Without(inbounds, t))
  BY <1>3 DEF OtherNode
<1>7. Change(j, Without(inbounds, t), certs, NoEntry)
  BY <1>1, <1>2, <1>3, <1>5, <1>6, KeyFacts DEF Change, t
<1>8. QED
  BY <1>1, <1>7 DEF t

LEMMA EditInboundStep ==
  ASSUME Types, NEW j \in Jobs, EditInbound(j)
  PROVE  /\ Types' /\ UNCHANGED <<files, rows, request, cmds, faults, history>>
         /\ jobs[j] \in NodeJob /\ jobs[j].pc = "config" /\ Only(j)
         /\ jobs'[j] = Idle \/ jobs'[j].pc = "reload"
<1>1. jobs[j] \in NodeJob /\ jobs[j].pc = "config"
  BY JobAt DEF Types, EditInbound, NodePcs
<1>2. UNCHANGED <<files, rows, request, cmds, faults, history>>
  BY DEF EditInbound
<1>3. /\ jobs' \in [Jobs -> Job] /\ Only(j)
      /\ jobs'[j] = Idle \/ jobs'[j].pc = "reload"
  <2>1. CASE Go(j, "reload")
    <3>1. "reload" \in NodePcs /\ "reload" \notin DelPcs
      BY DEF NodePcs, DelPcs
    <3>2. /\ jobs' \in [Jobs -> Job] /\ Only(j)
          /\ jobs'[j] = NodeNow(jobs[j], "reload", jobs[j].copy, jobs[j].todo)
      BY <1>1, <2>1, <3>1, GoNode DEF Types, Only, NodeNow
    <3>3. QED
      BY <3>2 DEF NodeNow
  <2>2. CASE End(j)
    BY <2>2, EndStep DEF Types, Only
  <2>3. QED
    BY <2>1, <2>2 DEF EditInbound
<1>4. Types'
  BY <1>2, <1>3 DEF Types, files, history
<1>5. QED
  BY <1>1, <1>2, <1>3, <1>4

LEMMA RefusedStep ==
  ASSUME Types, NEW j \in Jobs, Refused(j)
  PROVE  /\ Types' /\ UNCHANGED <<inbounds, meta, rows, request, cmds, history>>
         /\ certs \subseteq certs' /\ jobs[j] \in NodeJob /\ jobs[j].pc = "config"
         /\ jobs'[j] = Idle /\ Only(j)
<1>1. jobs[j] \in NodeJob /\ jobs[j].pc = "config"
  BY JobAt DEF Types, Refused, NodePcs
<1>2. jobs[j].tag \in Tags
  BY <1>1, NodeJobFields
<1>3. certs \subseteq certs' /\ certs' \subseteq Tags
  BY <1>2 DEF Refused, Types
<1>4. faults' \in 0..MaxFaults
  BY FaultTypes DEF Refused, Types
<1>5. jobs' \in [Jobs -> Job] /\ jobs'[j] = Idle /\ Only(j)
  BY EndStep DEF Refused, Types, Only
<1>6. UNCHANGED <<inbounds, meta, rows, request, cmds, history>>
  BY DEF Refused
<1>7. Types'
  BY <1>3, <1>4, <1>5, <1>6 DEF Types, history
<1>8. QED
  BY <1>1, <1>3, <1>5, <1>6, <1>7

LEMMA NodeJobCut ==
  ASSUME NEW job \in NodeJob, NEW copy
  PROVE  [job EXCEPT !.copy = copy, !.pc = "cut"] = NodeNow(job, "cut", copy, job.todo)
<1> DEFINE once == [job EXCEPT !.copy = copy]
<1>1. once = NodeNow(job, job.pc, copy, job.todo)
  BY DEF NodeJob, NodeNow
<1>2. [once EXCEPT !.pc = "cut"] = NodeNow(job, "cut", copy, job.todo)
  <2> HIDE DEF once
  <2> QED BY <1>1 DEF NodeNow
<1>3. [job EXCEPT !.copy = copy, !.pc = "cut"] = [once EXCEPT !.pc = "cut"]
  OBVIOUS
<1>4. QED
  BY <1>2, <1>3

LEMMA LoadStep ==
  ASSUME Types, NEW j \in Jobs, LoadMeta(j)
  PROVE  /\ Types' /\ UNCHANGED <<files, rows, request, cmds, faults, history>>
         /\ jobs[j] \in NodeJob /\ jobs[j].pc = "load" /\ Only(j)
         /\ \/ /\ jobs[j].cmd # "del"
               /\ jobs'[j] = NodeNow(jobs[j], "cut", With(meta, jobs[j].tag, jobs[j].entry),
                                     jobs[j].todo)
            \/ /\ jobs[j].cmd = "del" /\ jobs[j].tag \in DOMAIN meta
               /\ jobs'[j] = NodeNow(jobs[j], "cut", Without(meta, jobs[j].tag), jobs[j].todo)
            \/ /\ jobs[j].cmd = "del" /\ jobs[j].tag \notin DOMAIN meta
               /\ jobs'[j] = NodeNow(jobs[j], "certs", jobs[j].copy, jobs[j].todo)
<1> DEFINE t == jobs[j].tag
<1>0. jobs \in [Jobs -> Job] /\ meta \in Partial(Tags, Entry)
  BY DEF Types
<1>1. jobs[j] \in NodeJob /\ jobs[j].pc = "load"
  BY <1>0, JobAt DEF LoadMeta, NodePcs
<1>2. /\ t \in Tags /\ jobs[j].entry \in Entry /\ jobs[j].copy \in Partial(Tags, Entry)
      /\ jobs[j].todo \in Partial(Users, SUBSET Tags)
  BY <1>1, NodeJobFields
<1>3. "cut" \in NodePcs /\ "cut" \notin DelPcs /\ "certs" \in NodePcs
  BY DEF NodePcs, DelPcs
<1>4. UNCHANGED <<files, rows, request, cmds, faults, history>>
  BY DEF LoadMeta
<1>5. ASSUME NEW copy \in Partial(Tags, Entry),
             jobs' = [jobs EXCEPT ![j].copy = copy, ![j].pc = "cut"]
      PROVE  /\ jobs' \in [Jobs -> Job] /\ Only(j)
             /\ jobs'[j] = NodeNow(jobs[j], "cut", copy, jobs[j].todo)
  <2>1. [jobs[j] EXCEPT !.copy = copy, !.pc = "cut"] = NodeNow(jobs[j], "cut", copy, jobs[j].todo)
    BY <1>1, NodeJobCut
  <2>2. jobs' = [jobs EXCEPT ![j] = NodeNow(jobs[j], "cut", copy, jobs[j].todo)]
    <3>1. jobs' = [jobs EXCEPT ![j] = [jobs[j] EXCEPT !.copy = copy, !.pc = "cut"]]
      BY <1>0, <1>5
    <3>2. QED
      BY <3>1, <2>1
  <2>3. NodeNow(jobs[j], "cut", copy, jobs[j].todo) \in Job
    BY <1>1, <1>2, <1>3, NodeNowFacts
  <2>4. QED
    BY <1>0, <2>2, <2>3, JobStep DEF Only
<1>6. CASE jobs[j].cmd # "del"
  <2>1. jobs' = [jobs EXCEPT ![j].copy = With(meta, t, jobs[j].entry), ![j].pc = "cut"]
    BY <1>6 DEF LoadMeta
  <2>2. With(meta, t, jobs[j].entry) \in Partial(Tags, Entry)
    BY <1>0, <1>2, WithTyped
  <2>3. /\ jobs' \in [Jobs -> Job] /\ Only(j)
        /\ jobs'[j] = NodeNow(jobs[j], "cut", With(meta, t, jobs[j].entry), jobs[j].todo)
    BY <1>5, <2>1, <2>2
  <2>4. Types'
    BY <1>4, <2>3 DEF Types, files, history
  <2>5. QED
    BY <1>1, <1>4, <1>6, <2>3, <2>4
<1>7. CASE jobs[j].cmd = "del" /\ t \in DOMAIN meta
  <2>1. jobs' = [jobs EXCEPT ![j].copy = Without(meta, t), ![j].pc = "cut"]
    BY <1>7 DEF LoadMeta
  <2>2. Without(meta, t) \in Partial(Tags, Entry)
    BY <1>0, <1>2, WithoutTyped
  <2>3. /\ jobs' \in [Jobs -> Job] /\ Only(j)
        /\ jobs'[j] = NodeNow(jobs[j], "cut", Without(meta, t), jobs[j].todo)
    BY <1>5, <2>1, <2>2
  <2>4. Types'
    BY <1>4, <2>3 DEF Types, files, history
  <2>5. QED
    BY <1>1, <1>4, <1>7, <2>3, <2>4
<1>8. CASE jobs[j].cmd = "del" /\ t \notin DOMAIN meta
  <2>1. Go(j, "certs")
    BY <1>8 DEF LoadMeta
  <2>2. /\ jobs' \in [Jobs -> Job] /\ Only(j)
        /\ jobs'[j] = NodeNow(jobs[j], "certs", jobs[j].copy, jobs[j].todo)
    BY <1>0, <1>1, <1>3, <1>8, <2>1, GoNode DEF Only, NodeNow
  <2>3. Types'
    BY <1>4, <2>2 DEF Types, files, history
  <2>4. QED
    BY <1>1, <1>4, <1>8, <2>2, <2>3
<1>9. QED
  BY <1>6, <1>7, <1>8

\* A step of a node command that only moves it on.
LEMMA NodeGo ==
  ASSUME Types, NEW j \in Jobs, jobs[j] \in NodeJob, NEW pc \in NodePcs,
         pc \in DelPcs => jobs[j].cmd = "del", Go(j, pc)
  PROVE  /\ jobs' \in [Jobs -> Job] /\ Only(j)
         /\ jobs'[j] = NodeNow(jobs[j], pc, jobs[j].copy, jobs[j].todo)
  BY GoNode DEF Types, Only, NodeNow

LEMMA CutStep ==
  ASSUME Types, NEW j \in Jobs, CutMeta(j)
  PROVE  /\ Types' /\ UNCHANGED <<inbounds, certs, rows, cmds, faults, history>>
         /\ jobs[j] \in NodeJob /\ jobs[j].pc = "cut" /\ Only(j)
         /\ jobs'[j] = NodeNow(jobs[j], "put", jobs[j].copy, jobs[j].todo)
         /\ meta' = Nothing
         /\ request' = IF request = Idle THEN request ELSE NotedOf(request, "cut")
<1>1. jobs[j] \in NodeJob /\ jobs[j].pc = "cut"
  BY JobAt DEF Types, CutMeta, NodePcs
<1>2. "put" \in NodePcs /\ "put" \notin DelPcs /\ Go(j, "put")
  BY DEF NodePcs, DelPcs, CutMeta
<1>3. /\ jobs' \in [Jobs -> Job] /\ Only(j)
      /\ jobs'[j] = NodeNow(jobs[j], "put", jobs[j].copy, jobs[j].todo)
  BY <1>1, <1>2, NodeGo
<1>4. UNCHANGED <<inbounds, certs, rows, cmds, faults, history>> /\ meta' = Nothing
  BY DEF CutMeta
<1>5. meta' \in Partial(Tags, Entry)
  BY <1>4, NothingFacts
<1>6. request' = IF request = Idle THEN request ELSE NotedOf(request, "cut")
  BY DEF CutMeta, Noted, NotedOf
<1>7. request' \in Request \cup {Idle}
  BY <1>6, NotedOfFacts DEF Types
<1>8. Types'
  BY <1>3, <1>4, <1>5, <1>7 DEF Types, history
<1>9. QED
  BY <1>1, <1>3, <1>4, <1>6, <1>8

\* Where a command is after the file of entries.
NextPc(j) == IF jobs[j].cmd = "del" THEN "certs" ELSE "reload"

LEMMA NextPcFacts ==
  ASSUME NEW j \in Jobs
  PROVE  NextPc(j) \in NodePcs /\ (NextPc(j) \in DelPcs => jobs[j].cmd = "del")
  BY DEF NextPc, NodePcs, DelPcs

LEMMA PutStep ==
  ASSUME Types, NEW j \in Jobs, PutMeta(j)
  PROVE  /\ Types' /\ UNCHANGED <<inbounds, certs, rows, request, cmds, faults, history>>
         /\ jobs[j] \in NodeJob /\ jobs[j].pc = "put" /\ Only(j) /\ meta' = jobs[j].copy
         /\ jobs'[j] = NodeNow(jobs[j], NextPc(j), jobs[j].copy, jobs[j].todo)
<1>1. jobs[j] \in NodeJob /\ jobs[j].pc = "put"
  BY JobAt DEF Types, PutMeta, NodePcs
<1>2. Go(j, NextPc(j))
  BY DEF PutMeta, AfterMeta, NextPc
<1>3. /\ jobs' \in [Jobs -> Job] /\ Only(j)
      /\ jobs'[j] = NodeNow(jobs[j], NextPc(j), jobs[j].copy, jobs[j].todo)
  BY <1>1, <1>2, NextPcFacts, NodeGo
<1>4. UNCHANGED <<inbounds, certs, rows, request, cmds, faults, history>> /\ meta' = jobs[j].copy
  BY DEF PutMeta
<1>5. meta' \in Partial(Tags, Entry)
  BY <1>1, <1>4, NodeJobFields
<1>6. Types'
  BY <1>3, <1>4, <1>5 DEF Types, history
<1>7. QED
  BY <1>1, <1>3, <1>4, <1>6

LEMMA MetaFailsStep ==
  ASSUME Types, NEW j \in Jobs, MetaFails(j)
  PROVE  /\ Types' /\ UNCHANGED <<files, rows, request, cmds, dropped, overtaken>> /\ disturbed'
         /\ jobs[j] \in NodeJob /\ Only(j)
         /\ jobs'[j] = NodeNow(jobs[j], NextPc(j), jobs[j].copy, jobs[j].todo)
<1>1. jobs[j] \in NodeJob
  BY JobAt DEF Types, MetaFails, NodePcs
<1>2. Go(j, NextPc(j))
  BY DEF MetaFails, AfterMeta, NextPc
<1>3. /\ jobs' \in [Jobs -> Job] /\ Only(j)
      /\ jobs'[j] = NodeNow(jobs[j], NextPc(j), jobs[j].copy, jobs[j].todo)
  BY <1>1, <1>2, NextPcFacts, NodeGo
<1>4. /\ UNCHANGED <<files, rows, request, cmds, dropped, overtaken>> /\ disturbed' = TRUE
      /\ faults' \in 0..MaxFaults
  BY FaultTypes DEF MetaFails
<1>5. Types'
  BY <1>3, <1>4 DEF Types, files
<1>6. QED
  BY <1>1, <1>3, <1>4, <1>5

LEMMA RemoveCertsStep ==
  ASSUME Types, NEW j \in Jobs, RemoveCerts(j)
  PROVE  /\ Types' /\ UNCHANGED <<inbounds, meta, rows, request, cmds, faults, history>>
         /\ jobs[j] \in NodeJob /\ jobs[j].pc = "certs" /\ jobs[j].cmd = "del" /\ Only(j)
         /\ certs' = certs \ {jobs[j].tag}
         /\ jobs'[j] = NodeNow(jobs[j], "reload", jobs[j].copy, jobs[j].todo)
<1>1. jobs[j] \in NodeJob /\ jobs[j].pc = "certs" /\ jobs[j].cmd = "del"
  BY JobAt DEF Types, RemoveCerts, NodePcs, DelPcs
<1>2. "reload" \in NodePcs /\ "reload" \notin DelPcs /\ Go(j, "reload")
  BY DEF NodePcs, DelPcs, RemoveCerts
<1>3. /\ jobs' \in [Jobs -> Job] /\ Only(j)
      /\ jobs'[j] = NodeNow(jobs[j], "reload", jobs[j].copy, jobs[j].todo)
  BY <1>1, <1>2, NodeGo
<1>4. /\ UNCHANGED <<inbounds, meta, rows, request, cmds, faults, history>>
      /\ certs' = certs \ {jobs[j].tag}
  BY DEF RemoveCerts
<1>5. Types'
  BY <1>3, <1>4 DEF Types, history
<1>6. QED
  BY <1>1, <1>3, <1>4, <1>5

LEMMA ReloadStep ==
  ASSUME Types, NEW j \in Jobs, Reload(j)
  PROVE  /\ Types' /\ UNCHANGED <<files, rows, request, cmds, history>>
         /\ jobs[j] \in NodeJob /\ jobs[j].pc = "reload" /\ Only(j)
         /\ \/ jobs'[j] = Idle
            \/ /\ jobs[j].cmd = "del"
               /\ jobs'[j] = NodeNow(jobs[j], "list", jobs[j].copy, jobs[j].todo)
<1>1. jobs[j] \in NodeJob /\ jobs[j].pc = "reload"
  BY JobAt DEF Types, Reload, NodePcs
<1>2. UNCHANGED <<files, rows, request, cmds, history>> /\ faults' \in 0..MaxFaults
  BY FaultTypes DEF Reload, Types
<1>3. CASE jobs[j].cmd = "del" /\ Go(j, "list")
  <2>1. "list" \in NodePcs
    BY DEF NodePcs
  <2>2. /\ jobs' \in [Jobs -> Job] /\ Only(j)
        /\ jobs'[j] = NodeNow(jobs[j], "list", jobs[j].copy, jobs[j].todo)
    BY <1>1, <1>3, <2>1, NodeGo
  <2>3. Types'
    BY <1>2, <2>2 DEF Types, files, history
  <2>4. QED
    BY <1>1, <1>2, <1>3, <2>2, <2>3
<1>4. CASE End(j)
  <2>1. jobs' \in [Jobs -> Job] /\ jobs'[j] = Idle /\ Only(j)
    BY <1>4, EndStep DEF Types, Only
  <2>2. Types'
    BY <1>2, <2>1 DEF Types, files, history
  <2>3. QED
    BY <1>1, <1>2, <2>1, <2>2
<1>5. QED
  BY <1>3, <1>4 DEF Reload

LEMMA NodeJobClean ==
  ASSUME NEW job \in NodeJob, NEW todo
  PROVE  [job EXCEPT !.todo = todo, !.pc = "clean"] = NodeNow(job, "clean", job.copy, todo)
<1> DEFINE once == [job EXCEPT !.todo = todo]
<1>1. once = NodeNow(job, job.pc, job.copy, todo)
  BY DEF NodeJob, NodeNow
<1>2. [once EXCEPT !.pc = "clean"] = NodeNow(job, "clean", job.copy, todo)
  <2> HIDE DEF once
  <2> QED BY <1>1 DEF NodeNow
<1>3. [job EXCEPT !.todo = todo, !.pc = "clean"] = [once EXCEPT !.pc = "clean"]
  OBVIOUS
<1>4. QED
  BY <1>2, <1>3

LEMMA CleanListStep ==
  ASSUME Types, NEW j \in Jobs, CleanList(j)
  PROVE  /\ Types' /\ UNCHANGED <<files, rows, request, cmds, faults, history>>
         /\ jobs[j] \in NodeJob /\ jobs[j].pc = "list" /\ Only(j)
         /\ \/ jobs'[j] = Idle
            \/ \E todo \in Partial(Users, SUBSET Tags) :
                 jobs'[j] = NodeNow(jobs[j], "clean", jobs[j].copy, todo)
<1> DEFINE t == jobs[j].tag
           had == {u \in Users : ~rows[u].all /\ t \in rows[u].tags}
           todo == [u \in had |-> rows[u].tags \ {t}]
<1>0. jobs \in [Jobs -> Job]
  BY DEF Types
<1>1. jobs[j] \in NodeJob /\ jobs[j].pc = "list" /\ jobs[j].cmd = "del"
  BY JobAt DEF Types, CleanList, NodePcs, DelPcs
<1>2. UNCHANGED <<files, rows, request, cmds, faults, history>>
  BY DEF CleanList
<1>3. CASE had = {}
  <2>1. End(j)
    BY <1>3 DEF CleanList
  <2>2. jobs' \in [Jobs -> Job] /\ jobs'[j] = Idle /\ Only(j)
    BY <2>1, EndStep DEF Types, Only
  <2>3. Types'
    BY <1>2, <2>2 DEF Types, files, history
  <2>4. QED
    BY <1>1, <1>2, <2>2, <2>3
<1>4. CASE had # {}
  <2>1. jobs' = [jobs EXCEPT ![j].todo = todo, ![j].pc = "clean"]
    BY <1>4 DEF CleanList
  <2>2. todo \in Partial(Users, SUBSET Tags)
    <3>1. \A u \in had : rows[u].tags \ {t} \in SUBSET Tags
      BY DEF Types, Row
    <3>2. todo \in [had -> SUBSET Tags] /\ had \in SUBSET Users
      BY <3>1
    <3>3. QED
      BY <3>2 DEF Partial
  <2> HIDE DEF todo
  <2>3. [jobs[j] EXCEPT !.todo = todo, !.pc = "clean"] = NodeNow(jobs[j], "clean", jobs[j].copy, todo)
    BY <1>1, NodeJobClean
  <2>4. jobs' = [jobs EXCEPT ![j] = NodeNow(jobs[j], "clean", jobs[j].copy, todo)]
    <3>1. jobs' = [jobs EXCEPT ![j] = [jobs[j] EXCEPT !.todo = todo, !.pc = "clean"]]
      BY <1>0, <2>1
    <3>2. QED
      BY <3>1, <2>3
  <2>5. NodeNow(jobs[j], "clean", jobs[j].copy, todo) \in Job
    <3>1. jobs[j].copy \in Partial(Tags, Entry) /\ "clean" \in NodePcs
      BY <1>1, NodeJobFields DEF NodePcs
    <3>2. QED
      BY <1>1, <2>2, <3>1, NodeNowFacts
  <2>6. /\ jobs' \in [Jobs -> Job] /\ Only(j)
        /\ jobs'[j] = NodeNow(jobs[j], "clean", jobs[j].copy, todo)
    BY <1>0, <2>4, <2>5, JobStep DEF Only
  <2>7. Types'
    BY <1>2, <2>6 DEF Types, files, history
  <2>8. QED
    BY <1>1, <1>2, <2>2, <2>6, <2>7
<1>5. QED
  BY <1>3, <1>4

\* The clean-up writes back one row, narrower or not than it is by now.
LEMMA CleanRowStep ==
  ASSUME Types, NEW j \in Jobs, CleanRow(j)
  PROVE  /\ Types' /\ UNCHANGED <<files, request, cmds, faults, disturbed, dropped>>
         /\ jobs[j] \in NodeJob /\ jobs[j].pc = "clean" /\ Only(j)
         /\ jobs'[j] = Idle \/ (jobs'[j] \in NodeJob /\ jobs'[j].pc = "clean")
         /\ \E u \in Users : \E tags \in SUBSET Tags :
              /\ rows' = [rows EXCEPT ![u] = [all |-> FALSE, tags |-> tags]]
              /\ overtaken \subseteq overtaken'
              /\ \A t \in DOMAIN inbounds : CanUse(u, t) => CanUse(u, t)' \/ u \in overtaken'
<1>0. jobs \in [Jobs -> Job]
  BY DEF Types
<1>1. jobs[j] \in NodeJob /\ jobs[j].pc = "clean" /\ jobs[j].cmd = "del"
  BY JobAt DEF Types, CleanRow, NodePcs, DelPcs
<1>2. jobs[j].todo \in Partial(Users, SUBSET Tags) /\ jobs[j].copy \in Partial(Tags, Entry)
  BY <1>1, NodeJobFields
<1>3. PICK u \in DOMAIN jobs[j].todo :
        /\ rows' = [rows EXCEPT ![u] = [all |-> FALSE, tags |-> jobs[j].todo[u]]]
        /\ \/ End(j)
           \/ jobs' = [jobs EXCEPT ![j].todo = Restrict(jobs[j].todo, DOMAIN jobs[j].todo \ {u})]
        /\ overtaken' = IF \E t \in DOMAIN inbounds : CanUse(u, t) /\ ~CanUse(u, t)'
                        THEN overtaken \cup {u} ELSE overtaken
  BY DEF CleanRow
<1>4. u \in Users /\ jobs[j].todo[u] \in SUBSET Tags
  BY <1>2, PartialFacts
<1>5. UNCHANGED <<files, request, cmds, faults, disturbed, dropped>>
  BY DEF CleanRow
<1>6. rows' \in [Users -> Row] /\ overtaken' \subseteq Users
  BY <1>3, <1>4 DEF Types, Row
<1>7. /\ jobs' \in [Jobs -> Job] /\ Only(j)
      /\ jobs'[j] = Idle \/ (jobs'[j] \in NodeJob /\ jobs'[j].pc = "clean")
  <2>1. CASE End(j)
    BY <2>1, EndStep DEF Types, Only
  <2>2. CASE jobs' = [jobs EXCEPT ![j].todo = Restrict(jobs[j].todo, DOMAIN jobs[j].todo \ {u})]
    <3> DEFINE left == Without(jobs[j].todo, u)
               job == NodeNow(jobs[j], "clean", jobs[j].copy, left)
    <3>1. left \in Partial(Users, SUBSET Tags)
      BY <1>2, WithoutTyped
    <3>2. jobs' = [jobs EXCEPT ![j].todo = left]
      BY <2>2 DEF Without
    <3> HIDE DEF left
    <3>3. [jobs[j] EXCEPT !.todo = left] = job
      BY <1>1 DEF NodeJob, NodeNow
    <3>4. job \in NodeJob \cap Job /\ job.pc = "clean"
      <4>1. "clean" \in NodePcs
        BY DEF NodePcs
      <4>2. job \in NodeJob \cap Job
        BY <1>1, <1>2, <3>1, <4>1, NodeNowFacts
      <4>3. QED
        BY <4>2 DEF NodeNow
    <3> HIDE DEF job
    <3>5. jobs' = [jobs EXCEPT ![j] = job]
      BY <1>0, <3>2, <3>3
    <3>6. QED
      BY <1>0, <3>4, <3>5, JobStep DEF Only
  <2>3. QED
    BY <1>3, <2>1, <2>2
<1>8. Types'
  BY <1>5, <1>6, <1>7 DEF Types, files
<1>9. /\ overtaken \subseteq overtaken'
      /\ \A t \in DOMAIN inbounds : CanUse(u, t) => CanUse(u, t)' \/ u \in overtaken'
  BY <1>3
<1>10. QED
  BY <1>1, <1>3, <1>4, <1>5, <1>7, <1>8, <1>9

LEMMA ReadRowStep ==
  ASSUME Types, NEW j \in Jobs, ReadRow(j)
  PROVE  /\ Types' /\ UNCHANGED <<files, rows, request, cmds, faults, history>>
         /\ jobs[j] \in RowJob /\ jobs'[j] \in RowJob /\ jobs'[j].pc = "write" /\ Only(j)
<1>0. jobs \in [Jobs -> Job]
  BY DEF Types
<1>1. jobs[j] \in RowJob
  BY JobAt DEF Types, ReadRow, NodePcs
<1>2. UNCHANGED <<files, rows, request, cmds, faults, history>>
  BY DEF ReadRow
<1>3. rows[jobs[j].user] \in Row
  BY <1>1 DEF Types, RowJob
<1> DEFINE row == rows[jobs[j].user]
           job == [cmd |-> jobs[j].cmd, tag |-> jobs[j].tag, user |-> jobs[j].user,
                   pc |-> "write", exist |-> jobs[j].exist, row |-> row]
           once == [jobs[j] EXCEPT !.row = row]
<1>4. once = [cmd |-> jobs[j].cmd, tag |-> jobs[j].tag, user |-> jobs[j].user,
              pc |-> jobs[j].pc, exist |-> jobs[j].exist, row |-> row]
  BY <1>1 DEF RowJob
<1>5. [once EXCEPT !.pc = "write"] = job
  <2> HIDE DEF once
  <2> QED BY <1>4
<1>6. jobs' = [jobs EXCEPT ![j] = [once EXCEPT !.pc = "write"]]
  BY <1>0 DEF ReadRow
<1>7. job \in RowJob /\ job.pc = "write"
  BY <1>1, <1>3 DEF RowJob
<1>8. job \in Job
  BY <1>7 DEF Job
<1> HIDE DEF job, once
<1>9. jobs' \in [Jobs -> Job] /\ jobs'[j] = job /\ Only(j)
  BY <1>0, <1>5, <1>6, <1>8, JobStep DEF Only
<1>10. Types'
  BY <1>2, <1>9 DEF Types, files, history
<1>11. QED
  BY <1>1, <1>2, <1>7, <1>9, <1>10

LEMMA WrittenFacts ==
  ASSUME NEW job \in RowJob \cup PickJob
  PROVE  \A tags \in Written(job) : tags \in SUBSET Tags
<1>1. CASE job \in RowJob
  BY <1>1 DEF RowJob, Row, Written
<1>2. CASE job \in PickJob
  BY <1>2 DEF PickJob, Written
<1>3. QED
  BY <1>1, <1>2

LEMMA WriteRowStep ==
  ASSUME Types, NEW j \in Jobs, WriteRow(j)
  PROVE  /\ Types' /\ UNCHANGED <<files, request, cmds, faults, history>>
         /\ jobs[j] \in RowJob \cup PickJob /\ Only(j)
         /\ jobs'[j] \in RowJob \cup PickJob /\ jobs'[j].pc = "sync"
         /\ jobs'[j].user = jobs[j].user
         /\ jobs[j].user \in Users /\ \A u \in Users \ {jobs[j].user} : rows'[u] = rows[u]
<1>1. jobs[j] \in RowJob \cup PickJob
  BY JobAt DEF Types, WriteRow, NodePcs
<1>2. UNCHANGED <<files, request, cmds, faults, history>> /\ Go(j, "sync")
  BY DEF WriteRow
<1>3. /\ jobs' \in [Jobs -> Job] /\ Only(j)
      /\ jobs'[j] \in RowJob \cup PickJob /\ jobs'[j].pc = "sync"
      /\ jobs'[j].user = jobs[j].user
  BY <1>1, <1>2, GoRow DEF Types, Only
<1>4. jobs[j].user \in Users
  BY <1>1 DEF RowJob, PickJob
<1>5. \E row \in Row : rows' = [rows EXCEPT ![jobs[j].user] = row]
  <2>1. CASE rows' = [rows EXCEPT ![jobs[j].user] = [all |-> TRUE, tags |-> {}]]
    BY <2>1 DEF Row
  <2>2. ASSUME NEW tags \in Written(jobs[j]),
               rows' = [rows EXCEPT ![jobs[j].user] = [all |-> FALSE, tags |-> tags]]
        PROVE  \E row \in Row : rows' = [rows EXCEPT ![jobs[j].user] = row]
    <3>1. tags \in SUBSET Tags
      BY <1>1, WrittenFacts
    <3>2. QED
      BY <2>2, <3>1 DEF Row
  <2>3. QED
    BY <2>1, <2>2 DEF WriteRow
<1>6. rows' \in [Users -> Row] /\ \A u \in Users \ {jobs[j].user} : rows'[u] = rows[u]
  BY <1>4, <1>5 DEF Types
<1>7. Types'
  BY <1>2, <1>3, <1>6 DEF Types, files, history
<1>8. QED
  BY <1>1, <1>2, <1>3, <1>4, <1>6, <1>7

LEMMA SyncedFacts ==
  ASSUME inbounds \in Partial(Tags, Inbound)
  PROVE  /\ Synced \in Partial(Tags, Inbound) /\ DOMAIN Synced = DOMAIN inbounds
         /\ \A t \in DOMAIN inbounds :
              /\ Synced[t].kind = inbounds[t].kind /\ Synced[t].key = inbounds[t].key
              /\ Synced[t].reuse = inbounds[t].reuse
              /\ Synced[t].listed = {u \in Users : CanUse(u, t)}
<1>1. \A t \in DOMAIN inbounds : inbounds[t] \in Inbound /\ t \in Tags
  BY PartialFacts
<1>2. DOMAIN Synced = DOMAIN inbounds
  BY DEF Synced
<1>3. ASSUME NEW t \in DOMAIN inbounds
      PROVE  /\ Synced[t] \in Inbound
             /\ Synced[t].kind = inbounds[t].kind /\ Synced[t].key = inbounds[t].key
             /\ Synced[t].reuse = inbounds[t].reuse
             /\ Synced[t].listed = {u \in Users : CanUse(u, t)}
  <2> DEFINE allowed == {u \in Users : CanUse(u, t)}
  <2>1. Synced[t] = [inbounds[t] EXCEPT !.listed = allowed]
    BY <1>3 DEF Synced
  <2>2. allowed \in SUBSET Users
    OBVIOUS
  <2> HIDE DEF allowed
  <2>3. [inbounds[t] EXCEPT !.listed = allowed] =
          [kind |-> inbounds[t].kind, key |-> inbounds[t].key,
           reuse |-> inbounds[t].reuse, listed |-> allowed]
    BY <1>1 DEF Inbound
  <2>4. QED
    BY <1>1, <2>1, <2>2, <2>3 DEF Inbound, allowed
<1>4. Synced \in [DOMAIN inbounds -> Inbound] /\ DOMAIN inbounds \in SUBSET Tags
  BY <1>1, <1>3 DEF Synced
<1>5. Synced \in Partial(Tags, Inbound)
  BY <1>4 DEF Partial
<1>6. QED
  BY <1>2, <1>3, <1>5

LEMMA SyncStep ==
  ASSUME Types, NEW j \in Jobs, Sync(j)
  PROVE  /\ Types' /\ UNCHANGED <<meta, certs, rows, request, cmds, faults, disturbed>>
         /\ inbounds' = Synced /\ jobs[j].pc = "sync" /\ jobs[j] \notin NodeJob
         /\ jobs'[j] = Idle /\ Only(j)
<1>1. jobs[j] \in RowJob \cup PickJob \cup {SyncJob} /\ jobs[j].pc = "sync"
  BY JobAt DEF Types, Sync, NodePcs
<1>2. jobs[j] \notin NodeJob
  BY <1>1, NodeJobFields DEF NodePcs
<1>3. /\ UNCHANGED <<meta, certs, rows, request, cmds, faults, disturbed>>
      /\ inbounds' = Synced /\ dropped' = {} /\ overtaken' = {} /\ End(j)
  BY DEF Sync
<1>4. jobs' \in [Jobs -> Job] /\ jobs'[j] = Idle /\ Only(j)
  BY <1>3, EndStep DEF Types, Only
<1>5. inbounds' \in Partial(Tags, Inbound)
  BY <1>3, SyncedFacts DEF Types
<1>6. Types'
  BY <1>3, <1>4, <1>5 DEF Types
<1>7. QED
  BY <1>1, <1>2, <1>3, <1>4, <1>6

LEMMA OwesTyped == Types => \A j \in Jobs : Owes(j) \subseteq Users
<1> SUFFICES ASSUME Types, NEW j \in Jobs, At(j, "sync"), jobs[j].cmd # "sync"
             PROVE  jobs[j].user \in Users
  BY DEF Owes
<1>1. jobs[j] \in RowJob \cup PickJob \cup {SyncJob}
  BY JobAt DEF Types, NodePcs
<1>2. QED
  BY <1>1 DEF RowJob, PickJob, SyncJob

LEMMA SyncFailsStep ==
  ASSUME Types, NEW j \in Jobs, SyncFails(j)
  PROVE  /\ Types' /\ UNCHANGED <<files, rows, request, cmds, disturbed, overtaken>>
         /\ jobs[j].pc = "sync" /\ jobs[j] \notin NodeJob /\ jobs'[j] = Idle /\ Only(j)
         /\ dropped' = dropped \cup Owes(j)
<1>1. jobs[j] \in RowJob \cup PickJob \cup {SyncJob} /\ jobs[j].pc = "sync"
  BY JobAt DEF Types, SyncFails, NodePcs
<1>2. jobs[j] \notin NodeJob
  BY <1>1, NodeJobFields DEF NodePcs
<1>3. /\ UNCHANGED <<files, rows, request, cmds, disturbed, overtaken>>
      /\ dropped' = dropped \cup Owes(j) /\ End(j) /\ faults' \in 0..MaxFaults
  BY FaultTypes DEF SyncFails, Types
<1>4. jobs' \in [Jobs -> Job] /\ jobs'[j] = Idle /\ Only(j)
  BY <1>3, EndStep DEF Types, Only
<1>5. Types'
  BY <1>3, <1>4, OwesTyped DEF Types, files
<1>6. QED
  BY <1>1, <1>2, <1>3, <1>4, <1>5

LEMMA KillStep ==
  ASSUME Types, NEW j \in Jobs, Kill(j)
  PROVE  /\ Types' /\ UNCHANGED <<files, rows, request, cmds, overtaken>>
         /\ jobs'[j] = Idle /\ Only(j)
         /\ disturbed' = (disturbed \/ j \in Trailing) /\ dropped' = dropped \cup Owes(j)
<1>1. /\ UNCHANGED <<files, rows, request, cmds, overtaken>>
      /\ disturbed' = (disturbed \/ j \in Trailing) /\ dropped' = dropped \cup Owes(j)
      /\ End(j) /\ faults' \in 0..MaxFaults
  BY FaultTypes DEF Kill
<1>2. jobs' \in [Jobs -> Job] /\ jobs'[j] = Idle /\ Only(j)
  BY <1>1, EndStep DEF Types, Only
<1>3. Types'
  BY <1>1, <1>2, OwesTyped DEF Types, files
<1>4. QED
  BY <1>1, <1>2, <1>3

LEMMA OverlappingTyped ==
  ASSUME Types
  PROVE  \A t : Overlapping(t) \subseteq NodeCmds \cup {"cut"}
<1>1. ASSUME NEW j \in Trailing PROVE jobs[j].cmd \in NodeCmds
  <2>1. PICK pc \in {"load", "cut", "put", "certs"} : j \in Jobs /\ At(j, pc)
    BY <1>1 DEF Trailing
  <2>2. jobs[j] \in NodeJob
    BY <2>1, JobAt DEF Types, NodePcs
  <2>3. QED
    BY <2>2, NodeJobFields
<1>2. QED
  BY <1>1 DEF Overlapping

\* A subscription changes nothing but itself.
LEMMA SubscriptionStep ==
  ASSUME Types, Subscription
  PROVE  Types' /\ UNCHANGED <<files, rows, jobs, cmds, faults, history>>
<1>1. UNCHANGED <<files, rows, jobs, cmds, faults, history>>
  BY DEF Subscription, Ask, ReadAddress, ReadKey, Reply
<1>2. request' \in Request \cup {Idle}
  <2>1. CASE Ask
    <3>1. PICK t \in DOMAIN inbounds :
            request' = [cmd |-> "ask", pc |-> "address", tag |-> t, node |-> inbounds[t],
                        reuse |-> FALSE, key |-> 0, since |-> Overlapping(t)]
      BY <2>1 DEF Ask
    <3>2. t \in Tags /\ inbounds[t] \in Inbound
      BY PartialFacts DEF Types
    <3>3. Overlapping(t) \in SUBSET (NodeCmds \cup {"cut"})
      BY OverlappingTyped
    <3>4. QED
      BY <3>1, <3>2, <3>3, KeyFacts DEF Request
  <2>2. CASE ReadAddress
    <3>1. request \in Request
      BY <2>2 DEF ReadAddress, Types
    <3>2. EntryOf(meta, request.tag).reuse \in BOOLEAN
      BY EntryFacts DEF Types, Entry
    <3>3. PICK v \in BOOLEAN, pc \in {"key", "link"} : request' = [request EXCEPT !.reuse = v, !.pc = pc]
      BY <2>2, <3>2 DEF ReadAddress
    <3>4. QED
      BY <3>1, <3>3 DEF Request
  <2>3. CASE ReadKey
    <3>1. request \in Request
      BY <2>3 DEF ReadKey, Types
    <3>2. EntryOf(meta, request.tag).key \in Keys
      BY EntryFacts DEF Types, Entry
    <3>3. PICK k \in Keys : request' = [request EXCEPT !.key = k, !.pc = "link"]
      BY <2>3, <3>2 DEF ReadKey
    <3>4. QED
      BY <3>1, <3>3 DEF Request
  <2>4. CASE Reply
    BY <2>4 DEF Reply
  <2>5. QED
    BY <2>1, <2>2, <2>3, <2>4 DEF Subscription
<1>3. Types'
  BY <1>1, <1>2 DEF Types, files, history
<1>4. QED
  BY <1>1, <1>3

\* The command that changes config.json.
LEMMA ChangeStep ==
  ASSUME Types, NEW j \in Jobs, AddNode(j) \/ EditNode(j) \/ DeleteNode(j)
  PROVE  /\ Types' /\ UNCHANGED <<meta, rows, cmds, faults, dropped, overtaken>>
         /\ jobs[j] \in NodeJob /\ jobs[j].pc = "config" /\ Only(j)
         /\ certs \subseteq certs'
         /\ \/ \E entry \in Entry :
                 /\ Change(j, inbounds', certs', entry) /\ Accepts(inbounds', certs')
                 /\ jobs'[j] = [cmd |-> jobs[j].cmd, tag |-> jobs[j].tag, pc |-> "load",
                                entry |-> entry, copy |-> jobs[j].copy, todo |-> jobs[j].todo]
                 /\ disturbed' = (disturbed \/ Trailing # {}) /\ request' = RequestAfter(j)
            \/ jobs'[j] = Idle /\ UNCHANGED <<inbounds, disturbed, request>>
<1>1. jobs[j] \in NodeJob /\ jobs[j].pc = "config"
  BY JobAt DEF Types, AddNode, EditNode, DeleteNode, NodePcs
<1>2. PICK ib, cs, entry : Change(j, ib, cs, entry) /\ Saved(j, ib, cs, entry)
  BY AddChange, EditChange, DeleteChange
<1>3. ib \in Partial(Tags, Inbound) /\ cs \in SUBSET Tags /\ entry \in Entry /\ certs \subseteq cs
  BY <1>2 DEF Change
<1>4. /\ Types' /\ certs' = cs /\ UNCHANGED <<meta, rows, cmds, faults, dropped, overtaken>>
      /\ Only(j)
      /\ \/ /\ Accepts(ib, cs) /\ inbounds' = ib
            /\ jobs'[j] = [cmd |-> jobs[j].cmd, tag |-> jobs[j].tag, pc |-> "load",
                           entry |-> entry, copy |-> jobs[j].copy, todo |-> jobs[j].todo]
            /\ disturbed' = (disturbed \/ Trailing # {}) /\ request' = RequestAfter(j)
         \/ jobs'[j] = Idle /\ UNCHANGED <<inbounds, disturbed, request>>
  BY <1>1, <1>2, <1>3, SavedStep DEF Only
<1>5. QED
  BY <1>1, <1>2, <1>3, <1>4

LEMMA TypesNext == Types /\ [Next]_vars => Types'
<1> SUFFICES ASSUME Types, [Next]_vars PROVE Types'
  OBVIOUS
<1>1. CASE Subscription
  BY <1>1, SubscriptionStep
<1>2. ASSUME NEW j \in Jobs, Step(j) PROVE Types'
  <2>1. CASE NodeCommand(j) \/ GrantCommand(j) \/ Picker(j) \/ SyncCommand(j)
    BY <2>1, BeginStep
  <2>2. CASE AddNode(j) \/ EditNode(j) \/ DeleteNode(j)
    BY <2>2, ChangeStep
  <2>3. CASE Refused(j)
    BY <2>3, RefusedStep
  <2>4. CASE LoadMeta(j)
    BY <2>4, LoadStep
  <2>5. CASE CutMeta(j)
    BY <2>5, CutStep
  <2>6. CASE PutMeta(j)
    BY <2>6, PutStep
  <2>7. CASE MetaFails(j)
    BY <2>7, MetaFailsStep
  <2>8. CASE RemoveCerts(j)
    BY <2>8, RemoveCertsStep
  <2>9. CASE Reload(j)
    BY <2>9, ReloadStep
  <2>10. CASE CleanList(j)
    BY <2>10, CleanListStep
  <2>11. CASE CleanRow(j)
    BY <2>11, CleanRowStep
  <2>12. CASE ReadRow(j)
    BY <2>12, ReadRowStep
  <2>13. CASE WriteRow(j)
    BY <2>13, WriteRowStep
  <2>14. CASE Sync(j)
    BY <2>14, SyncStep
  <2>15. CASE SyncFails(j)
    BY <2>15, SyncFailsStep
  <2>16. CASE Kill(j)
    BY <2>16, KillStep
  <2>17. CASE EditInbound(j)
    BY <2>17, EditInboundStep
  <2>18. QED
    BY <1>2, <2>1, <2>2, <2>3, <2>4, <2>5, <2>6, <2>7, <2>8, <2>9, <2>10, <2>11, <2>12, <2>13,
       <2>14, <2>15, <2>16, <2>17 DEF Step
<1>3. CASE UNCHANGED vars
  BY <1>3 DEF vars, files, history, Types
<1>4. QED
  BY <1>1, <1>2, <1>3 DEF Next

LEMMA AlwaysTypes == Spec => []Types
  BY TypesInit, TypesNext, PTL DEF Spec

(* Every state of the files, the table, the commands and the subscription    *)
(* has its shape: node commands, writes of rows and syncs in all their steps.*)
THEOREM TypeCorrect == Spec => []TypeOK
  BY AlwaysTypes, TypesMean, PTL

-----------------------------------------------------------------------------
(* Grants.                                                                   *)

Owing(u) ==
  \E j \in Jobs : jobs[j] # Idle /\ jobs[j].pc = "sync" /\ jobs[j].cmd # "sync" /\ u = jobs[j].user

LEMMA OwingMeans == \A u : Owing(u) <=> \E j \in Jobs : u \in Owes(j)
  BY DEF Owing, Owes, At

\* A step of a command that owes no sync leaves those that do.
LEMMA OwingKept ==
  ASSUME NEW j \in Jobs, Only(j), jobs[j] = Idle \/ jobs[j].pc # "sync"
  PROVE  \A u : Owing(u) => Owing(u)'
  BY DEF Owing, Only

\* The end of one that does, when its user is put down as dropped.
LEMMA OwingDropped ==
  ASSUME NEW j \in Jobs, Only(j), dropped' = dropped \cup Owes(j)
  PROVE  \A u : Owing(u) => Owing(u)' \/ u \in dropped'
  BY DEF Owing, Only, Owes, At

\* A step that lists nobody new, and takes a node from nobody unnoticed.
LEMMA GrantsKept ==
  ASSUME GrantsCarried,
         \A t \in DOMAIN inbounds' : \A u \in inbounds'[t].listed :
           t \in DOMAIN inbounds /\ u \in inbounds[t].listed,
         \A u, t : t \in DOMAIN inbounds /\ CanUse(u, t) =>
                     CanUse(u, t)' \/ u \in overtaken' \/ Owing(u)',
         dropped \subseteq dropped', overtaken \subseteq overtaken',
         \A u : Owing(u) => Owing(u)' \/ u \in dropped'
  PROVE  GrantsCarried'
<1> SUFFICES ASSUME NEW t \in DOMAIN inbounds', NEW u \in inbounds'[t].listed
             PROVE  CanUse(u, t)' \/ u \in dropped' \cup overtaken' \/ Owing(u)'
  BY OwingMeans DEF GrantsCarried, Owing, Owes, At
<1>1. t \in DOMAIN inbounds /\ u \in inbounds[t].listed
  OBVIOUS
<1>2. CanUse(u, t) \/ u \in dropped \cup overtaken \/ Owing(u)
  BY <1>1, OwingMeans DEF GrantsCarried
<1>3. QED
  BY <1>1, <1>2

\* A step on commands and files of a node alone.
LEMMA GrantsQuiet ==
  ASSUME GrantsCarried, UNCHANGED <<inbounds, rows, dropped, overtaken>>, NEW j \in Jobs,
         Only(j), jobs[j] = Idle \/ jobs[j].pc # "sync"
  PROVE  GrantsCarried'
<1>1. \A u : Owing(u) => Owing(u)'
  BY OwingKept
<1>2. \A u, t : CanUse(u, t) => CanUse(u, t)'
  BY DEF CanUse
<1>3. QED
  BY <1>1, <1>2, GrantsKept

LEMMA GrantsInit == Init => GrantsCarried
  BY NodeAssumption DEF Init, GrantsCarried

LEMMA GrantsNext == Types /\ GrantsCarried /\ [Next]_vars => GrantsCarried'
<1> SUFFICES ASSUME Types, GrantsCarried, [Next]_vars PROVE GrantsCarried'
  OBVIOUS
<1>1. ASSUME UNCHANGED <<inbounds, rows, jobs, dropped, overtaken>> PROVE GrantsCarried'
  BY <1>1 DEF GrantsCarried, CanUse, Owes, At
<1>2. CASE Subscription
  BY <1>1, <1>2, SubscriptionStep DEF files, history
<1>3. ASSUME NEW j \in Jobs, Step(j) PROVE GrantsCarried'
  <2>1. CASE NodeCommand(j) \/ GrantCommand(j) \/ Picker(j) \/ SyncCommand(j)
    <3>1. UNCHANGED <<inbounds, rows, dropped, overtaken>> /\ Only(j) /\ jobs[j] = Idle
      BY <2>1, BeginStep DEF files, history
    <3>2. QED
      BY <3>1, GrantsQuiet
  <2>2. CASE AddNode(j) \/ EditNode(j) \/ DeleteNode(j)
    <3>1. /\ UNCHANGED <<rows, dropped, overtaken>> /\ Only(j) /\ jobs[j].pc = "config"
          /\ \/ \E entry \in Entry : Change(j, inbounds', certs', entry)
             \/ UNCHANGED inbounds
      BY <2>2, ChangeStep
    <3>2. \A t \in DOMAIN inbounds' : \A u \in inbounds'[t].listed :
            t \in DOMAIN inbounds /\ u \in inbounds[t].listed
      BY <3>1 DEF Change
    <3>3. \A u : Owing(u) => Owing(u)'
      BY <3>1, OwingKept
    <3>4. \A u, t : CanUse(u, t) => CanUse(u, t)'
      BY <3>1 DEF CanUse
    <3>5. QED
      BY <3>1, <3>2, <3>3, <3>4, GrantsKept
  <2>3. CASE Refused(j)
    <3>1. UNCHANGED <<inbounds, rows, dropped, overtaken>> /\ Only(j) /\ jobs[j].pc # "sync"
      BY <2>3, RefusedStep DEF history
    <3>2. QED
      BY <3>1, GrantsQuiet
  <2>4. CASE LoadMeta(j)
    <3>1. UNCHANGED <<inbounds, rows, dropped, overtaken>> /\ Only(j) /\ jobs[j].pc # "sync"
      BY <2>4, LoadStep DEF files, history
    <3>2. QED
      BY <3>1, GrantsQuiet
  <2>5. CASE CutMeta(j)
    <3>1. UNCHANGED <<inbounds, rows, dropped, overtaken>> /\ Only(j) /\ jobs[j].pc # "sync"
      BY <2>5, CutStep DEF history
    <3>2. QED
      BY <3>1, GrantsQuiet
  <2>6. CASE PutMeta(j)
    <3>1. UNCHANGED <<inbounds, rows, dropped, overtaken>> /\ Only(j) /\ jobs[j].pc # "sync"
      BY <2>6, PutStep DEF history
    <3>2. QED
      BY <3>1, GrantsQuiet
  <2>7. CASE MetaFails(j)
    <3>1. UNCHANGED <<inbounds, rows, dropped, overtaken>> /\ Only(j) /\ jobs[j].pc # "sync"
      BY <2>7, MetaFailsStep DEF files, MetaFails, At
    <3>2. QED
      BY <3>1, GrantsQuiet
  <2>8. CASE RemoveCerts(j)
    <3>1. UNCHANGED <<inbounds, rows, dropped, overtaken>> /\ Only(j) /\ jobs[j].pc # "sync"
      BY <2>8, RemoveCertsStep DEF history
    <3>2. QED
      BY <3>1, GrantsQuiet
  <2>9. CASE Reload(j)
    <3>1. UNCHANGED <<inbounds, rows, dropped, overtaken>> /\ Only(j) /\ jobs[j].pc # "sync"
      BY <2>9, ReloadStep DEF files, history
    <3>2. QED
      BY <3>1, GrantsQuiet
  <2>10. CASE CleanList(j)
    <3>1. UNCHANGED <<inbounds, rows, dropped, overtaken>> /\ Only(j) /\ jobs[j].pc # "sync"
      BY <2>10, CleanListStep DEF files, history
    <3>2. QED
      BY <3>1, GrantsQuiet
  \* Whoever loses a node that exists is put down as overtaken.
  <2>11. CASE CleanRow(j)
    <3>1. /\ UNCHANGED <<inbounds, dropped>> /\ Only(j) /\ jobs[j].pc # "sync"
          /\ overtaken \subseteq overtaken'
      BY <2>11, CleanRowStep DEF files
    <3>2. PICK u \in Users : \E tags \in SUBSET Tags :
            /\ rows' = [rows EXCEPT ![u] = [all |-> FALSE, tags |-> tags]]
            /\ \A t \in DOMAIN inbounds : CanUse(u, t) => CanUse(u, t)' \/ u \in overtaken'
      BY <2>11, CleanRowStep
    <3>3. \A w, t : t \in DOMAIN inbounds /\ CanUse(w, t) => CanUse(w, t)' \/ w \in overtaken'
      <4> SUFFICES ASSUME NEW w, NEW t \in DOMAIN inbounds, CanUse(w, t)
                   PROVE  CanUse(w, t)' \/ w \in overtaken'
        OBVIOUS
      <4>1. CASE w = u
        BY <3>2, <4>1
      <4>2. CASE w # u
        BY <3>2, <4>2 DEF CanUse, Types
      <4>3. QED
        BY <4>1, <4>2
    <3>4. \A w : Owing(w) => Owing(w)'
      BY <3>1, OwingKept
    <3>5. QED
      BY <3>1, <3>3, <3>4, GrantsKept
  <2>12. CASE ReadRow(j)
    <3>1. UNCHANGED <<inbounds, rows, dropped, overtaken>> /\ Only(j)
      BY <2>12, ReadRowStep DEF files, history
    <3>2. jobs[j].pc # "sync"
      BY <2>12 DEF ReadRow, At
    <3>3. QED
      BY <3>1, <3>2, GrantsQuiet
  \* Whoever's row is written is owed a sync from then on.
  <2>13. CASE WriteRow(j)
    <3>1. /\ UNCHANGED <<inbounds, dropped, overtaken>> /\ Only(j)
          /\ jobs'[j] \in RowJob \cup PickJob /\ jobs'[j].pc = "sync"
          /\ jobs'[j].user = jobs[j].user
          /\ \A u \in Users \ {jobs[j].user} : rows'[u] = rows[u]
      BY <2>13, WriteRowStep DEF files, history
    <3>2. jobs[j].pc # "sync"
      BY <2>13 DEF WriteRow, At
    <3>3. jobs'[j] # Idle /\ jobs'[j].cmd # "sync"
      BY <3>1 DEF RowJob, PickJob, Idle
    <3>4. \A u : u = jobs[j].user => Owing(u)'
      BY <3>1, <3>3 DEF Owing
    <3>5. \A u : Owing(u) => Owing(u)'
      BY <3>1, <3>2, OwingKept
    <3>6. ASSUME NEW u \in Users, NEW t, CanUse(u, t)
          PROVE  CanUse(u, t)' \/ Owing(u)'
      <4>1. CASE u = jobs[j].user
        BY <3>4, <4>1
      <4>2. CASE u # jobs[j].user
        BY <3>1, <3>6, <4>2 DEF CanUse
      <4>3. QED
        BY <4>1, <4>2
    <3>7. ASSUME NEW t \in DOMAIN inbounds', NEW u \in inbounds'[t].listed
          PROVE  CanUse(u, t)' \/ u \in dropped' \cup overtaken' \/ Owing(u)'
      <4>1. t \in DOMAIN inbounds /\ u \in inbounds[t].listed
        BY <3>1
      <4>2. u \in Users
        <5>1. inbounds[t] \in Inbound
          BY <4>1, PartialFacts DEF Types
        <5>2. QED
          BY <4>1, <5>1 DEF Inbound
      <4>3. CanUse(u, t) \/ u \in dropped \cup overtaken \/ Owing(u)
        BY <4>1, OwingMeans DEF GrantsCarried
      <4>4. QED
        BY <3>1, <3>5, <3>6, <4>2, <4>3
    <3>8. QED
      BY <3>7 DEF GrantsCarried, Owing, Owes, At
  <2>14. CASE Sync(j)
    <3>1. UNCHANGED rows /\ inbounds' = Synced
      BY <2>14, SyncStep
    <3>2. \A t \in DOMAIN inbounds' : \A u \in inbounds'[t].listed : CanUse(u, t)'
      BY <3>1, SyncedFacts DEF Types, CanUse
    <3>3. QED
      BY <3>2 DEF GrantsCarried
  <2>15. CASE SyncFails(j)
    <3>1. UNCHANGED <<inbounds, rows, overtaken>> /\ Only(j) /\ dropped' = dropped \cup Owes(j)
      BY <2>15, SyncFailsStep DEF files
    <3>2. \A u : Owing(u) => Owing(u)' \/ u \in dropped'
      BY <3>1, OwingDropped
    <3>3. \A u, t : CanUse(u, t) => CanUse(u, t)'
      BY <3>1 DEF CanUse
    <3>4. QED
      BY <3>1, <3>2, <3>3, GrantsKept
  <2>16. CASE Kill(j)
    <3>1. UNCHANGED <<inbounds, rows, overtaken>> /\ Only(j) /\ dropped' = dropped \cup Owes(j)
      BY <2>16, KillStep DEF files
    <3>2. \A u : Owing(u) => Owing(u)' \/ u \in dropped'
      BY <3>1, OwingDropped
    <3>3. \A u, t : CanUse(u, t) => CanUse(u, t)'
      BY <3>1 DEF CanUse
    <3>4. QED
      BY <3>1, <3>2, <3>3, GrantsKept
  <2>17. CASE EditInbound(j)
    <3>1. UNCHANGED <<inbounds, rows, dropped, overtaken>> /\ Only(j) /\ jobs[j].pc # "sync"
      BY <2>17, EditInboundStep DEF files, history
    <3>2. QED
      BY <3>1, GrantsQuiet
  <2>18. QED
    BY <1>3, <2>1, <2>2, <2>3, <2>4, <2>5, <2>6, <2>7, <2>8, <2>9, <2>10, <2>11, <2>12, <2>13,
       <2>14, <2>15, <2>16, <2>17 DEF Step
<1>4. CASE UNCHANGED vars
  BY <1>1, <1>4 DEF vars, files, history
<1>5. QED
  BY <1>2, <1>3, <1>4 DEF Next

(* sync_users and the commands that end with it: however the commands of     *)
(* users, of nodes and the clean-up of a deleted node interleave, fail or are*)
(* killed, an inbound lists nobody who may not use it but while a sync of his*)
(* is under way, or after one has failed or a clean-up has overtaken him.    *)
THEOREM GrantsCarriedCorrect == Spec => []GrantsCarried
<1>1. Spec => [](Types /\ GrantsCarried)
  BY TypesInit, TypesNext, GrantsInit, GrantsNext, PTL DEF Spec
<1>2. QED
  BY <1>1, PTL

-----------------------------------------------------------------------------
(* Which steps matter to the files: node commands after the lock are the     *)
(* trailing ones, and most steps leave them and what they need alone.        *)

TrailPcs == {"load", "cut", "put", "certs"}

LEMMA TrailingMeans ==
  /\ \A j : j \in Trailing <=> j \in Jobs /\ jobs[j] # Idle /\ jobs[j].pc \in TrailPcs
  /\ \A j : j \in Trailing' <=> j \in Jobs /\ jobs'[j] # Idle /\ jobs'[j].pc \in TrailPcs
  BY DEF Trailing, At, TrailPcs

Still ==
  /\ Trailing' = Trailing /\ \A i \in Trailing : jobs'[i] = jobs[i]
  /\ UNCHANGED <<meta, request, disturbed>> /\ certs \subseteq certs'
  /\ DOMAIN inbounds' = DOMAIN inbounds
  /\ \A t \in DOMAIN inbounds : /\ inbounds'[t].kind = inbounds[t].kind
                                /\ inbounds'[t].key = inbounds[t].key
                                /\ inbounds'[t].reuse = inbounds[t].reuse

\* A command that is not trailing, before and after, leaves them still.
LEMMA NotTrailing ==
  ASSUME NEW j \in Jobs, Only(j), jobs[j] = Idle \/ jobs[j].pc \notin TrailPcs,
         jobs'[j] = Idle \/ jobs'[j].pc \notin TrailPcs
  PROVE  Trailing' = Trailing /\ \A i \in Trailing : jobs'[i] = jobs[i]
<1>1. \A i \in Trailing : i \in Jobs \ {j} /\ jobs'[i] = jobs[i]
  BY TrailingMeans DEF Only
<1>2. ASSUME NEW i PROVE i \in Trailing' <=> i \in Trailing
  BY TrailingMeans DEF Only
<1>3. QED
  BY <1>1, <1>2

LEMMA QuietStill ==
  ASSUME NEW j \in Jobs, Only(j), jobs[j] = Idle \/ jobs[j].pc \notin TrailPcs,
         jobs'[j] = Idle \/ jobs'[j].pc \notin TrailPcs,
         UNCHANGED <<inbounds, meta, request, disturbed>>, certs \subseteq certs'
  PROVE  Still
  BY NotTrailing DEF Still

\* A trailing command that goes on.
LEMMA TrailingGoes ==
  ASSUME NEW j \in Jobs, Only(j), jobs[j] # Idle, jobs[j].pc \in TrailPcs
  PROVE  /\ jobs'[j] # Idle /\ jobs'[j].pc \in TrailPcs => Trailing' = Trailing
         /\ jobs'[j] = Idle \/ jobs'[j].pc \notin TrailPcs => Trailing' = Trailing \ {j}
         /\ j \in Trailing /\ \A i \in Trailing \ {j} : jobs'[i] = jobs[i]
<1>1. \A i : i # j => (i \in Trailing' <=> i \in Trailing)
  BY TrailingMeans DEF Only
<1>2. j \in Trailing /\ (j \in Trailing' <=> jobs'[j] # Idle /\ jobs'[j].pc \in TrailPcs)
  BY TrailingMeans
<1>3. \A i \in Trailing \ {j} : jobs'[i] = jobs[i]
  BY TrailingMeans DEF Only
<1>4. QED
  BY <1>1, <1>2, <1>3

\* The commands that change what others need, and the rest.
LEMMA StepKinds ==
  ASSUME Types, NEW j \in Jobs, Step(j)
  PROVE  \/ Still \/ disturbed'
         \/ AddNode(j) \/ EditNode(j) \/ DeleteNode(j)
         \/ LoadMeta(j) \/ CutMeta(j) \/ PutMeta(j) \/ RemoveCerts(j)
<1>1. CASE NodeCommand(j) \/ GrantCommand(j) \/ Picker(j) \/ SyncCommand(j)
  BY <1>1, BeginStep, QuietStill DEF files, history, TrailPcs
<1>2. CASE Refused(j)
  BY <1>2, RefusedStep, QuietStill DEF history, TrailPcs
<1>3. CASE MetaFails(j)
  BY <1>3, MetaFailsStep
<1>4. CASE Reload(j)
  <2>1. jobs'[j] = Idle \/ jobs'[j].pc = "list"
    <3>1. jobs'[j] = Idle \/ jobs'[j] = NodeNow(jobs[j], "list", jobs[j].copy, jobs[j].todo)
      BY <1>4, ReloadStep
    <3>2. QED
      BY <3>1 DEF NodeNow
  <2>2. QED
    BY <1>4, <2>1, ReloadStep, QuietStill DEF files, history, TrailPcs
<1>5. CASE CleanList(j)
  <2>1. jobs'[j] = Idle \/ jobs'[j].pc = "clean"
    <3>1. PICK todo : jobs'[j] = Idle \/ jobs'[j] = NodeNow(jobs[j], "clean", jobs[j].copy, todo)
      BY <1>5, CleanListStep
    <3>2. QED
      BY <3>1 DEF NodeNow
  <2>2. QED
    BY <1>5, <2>1, CleanListStep, QuietStill DEF files, history, TrailPcs
<1>6. CASE CleanRow(j)
  BY <1>6, CleanRowStep, QuietStill DEF files, TrailPcs
<1>7. CASE ReadRow(j)
  <2>1. jobs[j].pc = "read"
    BY <1>7 DEF ReadRow, At
  <2>2. QED
    BY <1>7, <2>1, ReadRowStep, QuietStill DEF files, history, TrailPcs
<1>8. CASE WriteRow(j)
  <2>1. jobs[j].pc = "write"
    BY <1>8 DEF WriteRow, At
  <2>2. QED
    BY <1>8, <2>1, WriteRowStep, QuietStill DEF files, history, TrailPcs
<1>9. CASE Sync(j)
  <2>1. Trailing' = Trailing /\ \A i \in Trailing : jobs'[i] = jobs[i]
    BY <1>9, SyncStep, NotTrailing DEF TrailPcs
  <2>2. inbounds' = Synced /\ UNCHANGED <<meta, certs, request, disturbed>>
    BY <1>9, SyncStep
  <2>3. QED
    BY <2>1, <2>2, SyncedFacts DEF Still, Types
<1>10. CASE SyncFails(j)
  BY <1>10, SyncFailsStep, QuietStill DEF files, TrailPcs
<1>11. CASE Kill(j)
  <2>1. CASE j \in Trailing
    BY <1>11, <2>1, KillStep
  <2>2. CASE j \notin Trailing
    <3>1. disturbed' = disturbed
      BY <1>11, <2>2, KillStep DEF Types
    <3>2. jobs[j] = Idle \/ jobs[j].pc \notin TrailPcs
      BY <2>2, TrailingMeans
    <3>3. QED
      BY <1>11, <3>1, <3>2, KillStep, QuietStill DEF files
  <2>3. QED
    BY <2>1, <2>2
<1>12. CASE EditInbound(j)
  BY <1>12, EditInboundStep, QuietStill DEF files, history, TrailPcs
<1>13. QED
  BY <1>1, <1>2, <1>3, <1>4, <1>5, <1>6, <1>7, <1>8, <1>9, <1>10, <1>11, <1>12 DEF Step

\* A subscription leaves all of it as it is.
LEMMA SubscriptionStill ==
  ASSUME Types, Subscription
  PROVE  /\ UNCHANGED <<inbounds, meta, certs, jobs, disturbed>> /\ Trailing' = Trailing
         /\ \A i \in Trailing : jobs'[i] = jobs[i]
<1>1. UNCHANGED <<inbounds, meta, certs, jobs, disturbed>>
  BY SubscriptionStep DEF files, history
<1>2. QED
  BY <1>1 DEF Trailing, At

\* What a change of config.json says for the ones that are trailing.
LEMMA ChangeTrails ==
  ASSUME Types, NEW j \in Jobs, AddNode(j) \/ EditNode(j) \/ DeleteNode(j), ~disturbed'
  PROVE  \/ Still
         \/ /\ ~disturbed /\ Trailing = {} /\ Trailing' = {j} /\ UNCHANGED meta
            /\ Accepts(inbounds', certs') /\ request' = RequestAfter(j)
            /\ jobs'[j].cmd = jobs[j].cmd /\ jobs'[j].tag = jobs[j].tag /\ jobs'[j].pc = "load"
            /\ \E entry : Change(j, inbounds', certs', entry) /\ jobs'[j].entry = entry
<1>1. /\ UNCHANGED meta /\ jobs[j] \in NodeJob /\ jobs[j].pc = "config" /\ Only(j)
      /\ certs \subseteq certs'
  BY ChangeStep
<1>2. jobs[j].pc \notin TrailPcs
  BY <1>1 DEF TrailPcs
<1>3. CASE jobs'[j] = Idle /\ UNCHANGED <<inbounds, disturbed, request>>
  BY <1>1, <1>2, <1>3, QuietStill
<1>4. ASSUME NEW entry \in Entry, Change(j, inbounds', certs', entry), Accepts(inbounds', certs'),
             jobs'[j] = [cmd |-> jobs[j].cmd, tag |-> jobs[j].tag, pc |-> "load",
                         entry |-> entry, copy |-> jobs[j].copy, todo |-> jobs[j].todo],
             disturbed' = (disturbed \/ Trailing # {}), request' = RequestAfter(j)
      PROVE  /\ ~disturbed /\ Trailing = {} /\ Trailing' = {j} /\ UNCHANGED meta
             /\ Accepts(inbounds', certs') /\ request' = RequestAfter(j)
             /\ jobs'[j].cmd = jobs[j].cmd /\ jobs'[j].tag = jobs[j].tag /\ jobs'[j].pc = "load"
             /\ \E e : Change(j, inbounds', certs', e) /\ jobs'[j].entry = e
  <2>1. ~disturbed /\ Trailing = {}
    BY <1>4 DEF Types
  <2>2. jobs'[j].cmd \in NodeCmds /\ jobs'[j].cmd = jobs[j].cmd /\ jobs'[j].tag = jobs[j].tag
        /\ jobs'[j].pc = "load" /\ jobs'[j].entry = entry
    BY <1>1, <1>4, NodeJobFields
  <2>3. jobs'[j] # Idle
    BY <2>2 DEF Idle, NodeCmds
  <2>4. Trailing' = {j}
    BY <2>1, <2>2, <2>3, TrailingMeans, <1>1 DEF Only, TrailPcs
  <2>5. QED
    BY <1>1, <1>4, <2>1, <2>2, <2>4
<1>5. QED
  BY <1>3, <1>4, ChangeStep

-----------------------------------------------------------------------------
(* config.json stays acceptable.  A node whose certificate is about to be    *)
(* taken away is not in config.json any more: nobody may have added one of   *)
(* its name while the command was trailing.                                  *)
CertInv ==
  ~disturbed =>
    /\ Accepts(inbounds, certs)
    /\ \A j \in Trailing : jobs[j].cmd = "del" => jobs[j].tag \notin DOMAIN inbounds

LEMMA CertInit == Init => CertInv
<1> SUFFICES ASSUME Init PROVE CertInv
  OBVIOUS
<1>1. Trailing = {}
  BY TrailingMeans DEF Init
<1>2. Accepts(inbounds, certs)
  BY NodeAssumption DEF Init, Accepts
<1>3. QED
  BY <1>1, <1>2 DEF CertInv

LEMMA CertStill == CertInv /\ Still => CertInv'
<1> SUFFICES ASSUME CertInv, Still, ~disturbed' PROVE CertInv'
  BY DEF CertInv
<1>1. /\ ~disturbed /\ Accepts(inbounds, certs)
      /\ \A j \in Trailing : jobs[j].cmd = "del" => jobs[j].tag \notin DOMAIN inbounds
  BY DEF CertInv, Still
<1>2. Accepts(inbounds', certs')
  BY <1>1 DEF Still, Accepts
<1>3. \A j \in Trailing' : jobs'[j].cmd = "del" => jobs'[j].tag \notin DOMAIN inbounds'
  BY <1>1 DEF Still
<1>4. QED
  BY <1>2, <1>3 DEF CertInv

\* A trailing command that goes on, and leaves config.json and the certificates.
LEMMA CertGoes ==
  ASSUME Types, CertInv, NEW j \in Jobs, Only(j), jobs[j] \in NodeJob, jobs[j].pc \in TrailPcs,
         NEW pc \in NodePcs, NEW copy, NEW todo, jobs'[j] = NodeNow(jobs[j], pc, copy, todo),
         UNCHANGED <<inbounds, certs, disturbed>>
  PROVE  CertInv'
<1>1. jobs[j] # Idle
  BY DEF NodeJob, NodeCmds, Idle
<1>2. /\ j \in Trailing /\ Trailing' \in {Trailing, Trailing \ {j}}
      /\ \A i \in Trailing \ {j} : jobs'[i] = jobs[i]
  BY <1>1, TrailingGoes
<1>3. jobs'[j].cmd = jobs[j].cmd /\ jobs'[j].tag = jobs[j].tag
  BY DEF NodeNow
<1>4. QED
  BY <1>2, <1>3 DEF CertInv

LEMMA CertNext == Types /\ CertInv /\ [Next]_vars => CertInv'
<1> SUFFICES ASSUME Types, CertInv, [Next]_vars PROVE CertInv'
  OBVIOUS
<1>1. CASE Subscription
  BY <1>1, SubscriptionStill DEF CertInv
<1>2. ASSUME NEW j \in Jobs, Step(j) PROVE CertInv'
  <2>1. CASE Still
    BY <2>1, CertStill
  <2>2. CASE disturbed'
    BY <2>2 DEF CertInv
  <2>3. CASE ~disturbed' /\ (AddNode(j) \/ EditNode(j) \/ DeleteNode(j)) /\ ~Still
    <3>1. /\ Trailing' = {j} /\ Accepts(inbounds', certs')
          /\ jobs'[j].cmd = jobs[j].cmd /\ jobs'[j].tag = jobs[j].tag
          /\ \E entry : Change(j, inbounds', certs', entry)
      BY <2>3, ChangeTrails
    <3>2. jobs[j].cmd = "del" => jobs[j].tag \notin DOMAIN inbounds'
      BY <3>1 DEF Change
    <3>3. QED
      BY <3>1, <3>2 DEF CertInv
  <2>4. CASE LoadMeta(j)
    <3>1. /\ UNCHANGED <<inbounds, certs, disturbed>> /\ Only(j)
          /\ jobs[j] \in NodeJob /\ jobs[j].pc \in TrailPcs
      BY <2>4, LoadStep DEF files, history, TrailPcs
    <3>2. PICK pc, copy : /\ pc \in {"cut", "certs"}
                            /\ jobs'[j] = NodeNow(jobs[j], pc, copy, jobs[j].todo)
      BY <2>4, LoadStep
    <3>3. pc \in NodePcs
      BY <3>2 DEF NodePcs
    <3>4. QED
      BY <3>1, <3>2, <3>3, CertGoes
  <2>5. CASE CutMeta(j)
    <3>1. /\ UNCHANGED <<inbounds, certs, disturbed>> /\ Only(j)
          /\ jobs[j] \in NodeJob /\ jobs[j].pc \in TrailPcs /\ "put" \in NodePcs
          /\ jobs'[j] = NodeNow(jobs[j], "put", jobs[j].copy, jobs[j].todo)
      BY <2>5, CutStep DEF history, TrailPcs, NodePcs
    <3>2. QED
      BY <3>1, CertGoes
  <2>6. CASE PutMeta(j)
    <3>1. /\ UNCHANGED <<inbounds, certs, disturbed>> /\ Only(j)
          /\ jobs[j] \in NodeJob /\ jobs[j].pc \in TrailPcs /\ NextPc(j) \in NodePcs
          /\ jobs'[j] = NodeNow(jobs[j], NextPc(j), jobs[j].copy, jobs[j].todo)
      BY <2>6, PutStep, NextPcFacts DEF history, TrailPcs
    <3>2. QED
      BY <3>1, CertGoes
  \* The node of the certificate has gone.
  <2>7. CASE RemoveCerts(j) /\ ~disturbed'
    <3>1. /\ UNCHANGED <<inbounds, disturbed>> /\ Only(j) /\ certs' = certs \ {jobs[j].tag}
          /\ jobs[j] \in NodeJob /\ jobs[j].pc = "certs" /\ jobs[j].cmd = "del"
      BY <2>7, RemoveCertsStep DEF history
    <3>2. jobs'[j] # Idle /\ jobs'[j].pc = "reload"
      <4>1. jobs'[j] = NodeNow(jobs[j], "reload", jobs[j].copy, jobs[j].todo)
        BY <2>7, RemoveCertsStep
      <4>2. jobs'[j].pc = "reload" /\ jobs'[j].cmd = "del"
        BY <3>1, <4>1 DEF NodeNow
      <4>3. QED
        BY <4>2 DEF Idle
    <3>3. jobs[j] # Idle
      BY <3>1 DEF Idle
    <3>4. /\ j \in Trailing /\ Trailing' = Trailing \ {j}
          /\ \A i \in Trailing \ {j} : jobs'[i] = jobs[i]
      BY <3>1, <3>2, <3>3, TrailingGoes DEF TrailPcs
    <3>5. /\ Accepts(inbounds, certs) /\ jobs[j].tag \notin DOMAIN inbounds
          /\ \A i \in Trailing : jobs[i].cmd = "del" => jobs[i].tag \notin DOMAIN inbounds
      BY <2>7, <3>1, <3>4 DEF CertInv
    <3>6. Accepts(inbounds', certs')
      BY <3>1, <3>5 DEF Accepts
    <3>7. QED
      BY <3>1, <3>4, <3>5, <3>6 DEF CertInv
  <2>8. QED
    BY <1>2, <2>1, <2>2, <2>3, <2>4, <2>5, <2>6, <2>7, StepKinds
<1>3. CASE UNCHANGED vars
  BY <1>3 DEF vars, files, history, CertInv, Trailing, At
<1>4. QED
  BY <1>1, <1>2, <1>3 DEF Next

(* config.json as it is passes the check of sing-box, so that the next       *)
(* command and the next sync can save theirs, as long as no two node commands*)
(* have shared their time after the lock and none has ended in it.           *)
THEOREM StaysAcceptableCorrect == Spec => []StaysAcceptable
<1>1. Spec => [](Types /\ CertInv)
  BY TypesInit, TypesNext, CertInit, CertNext, PTL DEF Spec
<1>2. CertInv => StaysAcceptable
  BY DEF CertInv, StaysAcceptable
<1>3. QED
  BY <1>1, <1>2, PTL

-----------------------------------------------------------------------------
(* The two files agree.  While a command is trailing, and only one is, they  *)
(* agree as soon as it has done what it is about to do.                      *)

AfterSame(job, m, ib) ==
  CASE job.pc = "load" /\ job.cmd # "del" -> Same(With(m, job.tag, job.entry), ib)
    [] job.pc = "load" /\ job.cmd = "del" -> Same(Without(m, job.tag), ib)
    [] job.pc \in {"cut", "put"} -> Same(job.copy, ib)
    [] OTHER -> Same(m, ib)

MetaInv ==
  ~disturbed =>
    /\ \A i, j \in Trailing : i = j
    /\ Trailing = {} => Same(meta, inbounds)
    /\ \A j \in Trailing : AfterSame(jobs[j], meta, inbounds)

\* Nothing but the nodes' keys and ports matters to the agreement.
LEMMA SameKept ==
  ASSUME NEW ib, NEW ib2, DOMAIN ib2 = DOMAIN ib,
         \A t \in DOMAIN ib : /\ ib2[t].kind = ib[t].kind /\ ib2[t].key = ib[t].key
                              /\ ib2[t].reuse = ib[t].reuse
  PROVE  \A m : Same(m, ib) => Same(m, ib2)
  BY DEF Same

LEMMA AfterSameKept ==
  ASSUME NEW ib, NEW ib2, DOMAIN ib2 = DOMAIN ib,
         \A t \in DOMAIN ib : /\ ib2[t].kind = ib[t].kind /\ ib2[t].key = ib[t].key
                              /\ ib2[t].reuse = ib[t].reuse,
         NEW job, NEW m, AfterSame(job, m, ib)
  PROVE  AfterSame(job, m, ib2)
<1>1. \A x : Same(x, ib) => Same(x, ib2)
  BY SameKept
<1>2. CASE job.pc = "load" /\ job.cmd # "del"
  BY <1>1, <1>2 DEF AfterSame
<1>3. CASE job.pc = "load" /\ job.cmd = "del"
  BY <1>1, <1>3 DEF AfterSame
<1>4. CASE job.pc \in {"cut", "put"}
  BY <1>1, <1>4 DEF AfterSame
<1>5. CASE job.pc \notin {"load", "cut", "put"}
  BY <1>1, <1>5 DEF AfterSame
<1>6. QED
  BY <1>2, <1>3, <1>4, <1>5

LEMMA MetaInit == Init => MetaInv
<1> SUFFICES ASSUME Init PROVE MetaInv
  OBVIOUS
<1>1. Trailing = {}
  BY TrailingMeans DEF Init
<1>2. DOMAIN meta = StartNodes /\ DOMAIN inbounds = StartNodes
  BY DEF Init
<1>3. \A t \in StartNodes : /\ meta[t].reuse = FALSE /\ meta[t].key = inbounds[t].key
                            /\ inbounds[t].reuse = FALSE
  BY DEF Init, NoEntry
<1>4. Same(meta, inbounds)
  BY <1>2, <1>3 DEF Same
<1>5. QED
  BY <1>1, <1>4 DEF MetaInv

LEMMA MetaStill == MetaInv /\ Still => MetaInv'
<1> SUFFICES ASSUME MetaInv, Still, ~disturbed' PROVE MetaInv'
  BY DEF MetaInv
<1>1. /\ \A i, j \in Trailing : i = j
      /\ Trailing = {} => Same(meta, inbounds)
      /\ \A j \in Trailing : AfterSame(jobs[j], meta, inbounds)
  BY DEF MetaInv, Still
<1>2. Trailing = {} => Same(meta, inbounds')
  BY <1>1, SameKept DEF Still
<1>3. \A j \in Trailing : AfterSame(jobs[j], meta, inbounds')
  BY <1>1, AfterSameKept DEF Still
<1>4. QED
  BY <1>1, <1>2, <1>3 DEF MetaInv, Still

\* The one that is trailing goes on, and still is.
LEMMA MetaGoes ==
  ASSUME MetaInv, NEW j \in Jobs, Only(j), jobs[j] # Idle, jobs[j].pc \in TrailPcs,
         jobs'[j] # Idle, jobs'[j].pc \in TrailPcs, UNCHANGED disturbed,
         ~disturbed => AfterSame(jobs'[j], meta', inbounds')
  PROVE  MetaInv'
<1>1. Trailing' = Trailing /\ j \in Trailing
  BY TrailingGoes
<1>2. QED
  BY <1>1 DEF MetaInv

\* It is through.
LEMMA MetaEnds ==
  ASSUME MetaInv, NEW j \in Jobs, Only(j), jobs[j] # Idle, jobs[j].pc \in TrailPcs,
         jobs'[j] = Idle \/ jobs'[j].pc \notin TrailPcs, UNCHANGED disturbed,
         ~disturbed => Same(meta', inbounds')
  PROVE  MetaInv'
<1>1. Trailing' = Trailing \ {j} /\ j \in Trailing
  BY TrailingGoes
<1>2. QED
  BY <1>1 DEF MetaInv

\* What is known of the one that is at a step.
LEMMA MetaOf ==
  ASSUME MetaInv, ~disturbed, NEW j \in Jobs, jobs[j] # Idle, jobs[j].pc \in TrailPcs
  PROVE  AfterSame(jobs[j], meta, inbounds)
  BY TrailingMeans DEF MetaInv

\* A node command is a command, wherever it is.
LEMMA NodeNowKind ==
  ASSUME NEW job \in NodeJob, NEW pc, NEW copy, NEW todo
  PROVE  /\ NodeNow(job, pc, copy, todo) # Idle /\ job # Idle
         /\ NodeNow(job, pc, copy, todo).pc = pc
         /\ NodeNow(job, pc, copy, todo).cmd = job.cmd
         /\ NodeNow(job, pc, copy, todo).copy = copy
<1>1. job.cmd \in NodeCmds
  BY NodeJobFields
<1>2. NodeNow(job, pc, copy, todo).cmd = job.cmd
  BY DEF NodeNow
<1>3. NodeNow(job, pc, copy, todo) # Idle /\ job # Idle
  BY <1>1, <1>2 DEF Idle, NodeCmds
<1>4. QED
  BY <1>2, <1>3 DEF NodeNow

LEMMA MetaLoad ==
  ASSUME Types, MetaInv, NEW j \in Jobs, LoadMeta(j)
  PROVE  MetaInv'
<1> DEFINE t == jobs[j].tag
<1>1. /\ jobs[j] \in NodeJob /\ jobs[j].pc = "load" /\ jobs[j].pc \in TrailPcs /\ Only(j)
      /\ UNCHANGED <<meta, inbounds, disturbed>>
  BY LoadStep DEF files, history, TrailPcs
<1>2. jobs[j] # Idle
  BY <1>1, NodeNowKind
<1>3. ASSUME NEW pc \in TrailPcs, NEW copy, jobs'[j] = NodeNow(jobs[j], pc, copy, jobs[j].todo),
             ~disturbed => IF pc = "cut" THEN Same(copy, inbounds)
                           ELSE pc = "certs" /\ Same(meta, inbounds)
      PROVE  MetaInv'
  <2>1. jobs'[j] # Idle /\ jobs'[j].pc = pc /\ jobs'[j].copy = copy
    BY <1>1, <1>3, NodeNowKind
  <2>2. ~disturbed => AfterSame(jobs'[j], meta', inbounds')
    BY <1>1, <1>3, <2>1 DEF AfterSame
  <2>3. QED
    BY <1>1, <1>2, <1>3, <2>1, <2>2, MetaGoes
<1>4. CASE jobs[j].cmd # "del"
  <2>1. jobs'[j] = NodeNow(jobs[j], "cut", With(meta, t, jobs[j].entry), jobs[j].todo)
    BY <1>4, LoadStep
  <2>2. ~disturbed => Same(With(meta, t, jobs[j].entry), inbounds)
    BY <1>1, <1>2, <1>4, MetaOf DEF AfterSame
  <2>3. QED
    BY <1>3, <2>1, <2>2 DEF TrailPcs
<1>5. CASE jobs[j].cmd = "del"
  <2>1. ~disturbed => Same(Without(meta, t), inbounds)
    BY <1>1, <1>2, <1>5, MetaOf DEF AfterSame
  <2>2. CASE t \in DOMAIN meta
    <3>1. jobs'[j] = NodeNow(jobs[j], "cut", Without(meta, t), jobs[j].todo)
      BY <1>5, <2>2, LoadStep
    <3>2. QED
      BY <1>3, <2>1, <3>1 DEF TrailPcs
  <2>3. CASE t \notin DOMAIN meta
    <3>1. jobs'[j] = NodeNow(jobs[j], "certs", jobs[j].copy, jobs[j].todo)
      BY <1>5, <2>3, LoadStep
    <3>2. ~disturbed => Same(meta, inbounds)
      <4> HIDE DEF t
      <4>1. DOMAIN Without(meta, t) = DOMAIN meta /\ \A s \in DOMAIN meta : Without(meta, t)[s] = meta[s]
        BY <2>3, WithoutMeans
      <4>2. QED
        BY <2>1, <4>1 DEF Same
    <3>3. QED
      BY <1>3, <3>1, <3>2 DEF TrailPcs
  <2>4. QED
    BY <2>2, <2>3
<1>6. QED
  BY <1>4, <1>5

LEMMA MetaNext == Types /\ MetaInv /\ [Next]_vars => MetaInv'
<1> SUFFICES ASSUME Types, MetaInv, [Next]_vars PROVE MetaInv'
  OBVIOUS
<1>1. CASE Subscription
  BY <1>1, SubscriptionStill DEF MetaInv
<1>2. ASSUME NEW j \in Jobs, Step(j) PROVE MetaInv'
  <2>1. CASE Still
    BY <2>1, MetaStill
  <2>2. CASE disturbed'
    BY <2>2 DEF MetaInv
  <2>3. CASE ~disturbed' /\ (AddNode(j) \/ EditNode(j) \/ DeleteNode(j)) /\ ~Still
    <3>1. /\ ~disturbed /\ Trailing = {} /\ Trailing' = {j} /\ UNCHANGED meta
          /\ jobs'[j].cmd = jobs[j].cmd /\ jobs'[j].tag = jobs[j].tag /\ jobs'[j].pc = "load"
      BY <2>3, ChangeTrails
    <3>2. Change(j, inbounds', certs', jobs'[j].entry)
      BY <2>3, ChangeTrails
    <3>3. Same(meta, inbounds)
      BY <3>1 DEF MetaInv
    <3>4. AfterSame(jobs'[j], meta', inbounds')
      BY <3>1, <3>2, <3>3 DEF AfterSame, Change
    <3>5. QED
      BY <3>1, <3>4 DEF MetaInv
  <2>4. CASE LoadMeta(j)
    BY <2>4, MetaLoad
  <2>5. CASE CutMeta(j)
    <3>1. /\ jobs[j] \in NodeJob /\ jobs[j].pc = "cut" /\ Only(j)
          /\ UNCHANGED <<inbounds, disturbed>>
          /\ jobs'[j] = NodeNow(jobs[j], "put", jobs[j].copy, jobs[j].todo)
      BY <2>5, CutStep DEF history
    <3>2. /\ jobs[j] # Idle /\ jobs'[j] # Idle
          /\ jobs'[j].pc = "put" /\ jobs'[j].copy = jobs[j].copy
      BY <3>1, NodeNowKind
    <3>3. ~disturbed => Same(jobs[j].copy, inbounds)
      BY <3>1, <3>2, MetaOf DEF AfterSame, TrailPcs
    <3>4. ~disturbed => AfterSame(jobs'[j], meta', inbounds')
      BY <3>1, <3>2, <3>3 DEF AfterSame
    <3>5. QED
      BY <3>1, <3>2, <3>4, MetaGoes DEF TrailPcs
  <2>6. CASE PutMeta(j)
    <3>1. /\ jobs[j] \in NodeJob /\ jobs[j].pc = "put" /\ Only(j) /\ meta' = jobs[j].copy
          /\ UNCHANGED <<inbounds, disturbed>>
          /\ jobs'[j] = NodeNow(jobs[j], NextPc(j), jobs[j].copy, jobs[j].todo)
      BY <2>6, PutStep DEF history
    <3>2. jobs[j] # Idle /\ jobs'[j] # Idle /\ jobs'[j].pc = NextPc(j)
      BY <3>1, NodeNowKind
    <3>3. ~disturbed => Same(meta', inbounds')
      BY <3>1, <3>2, MetaOf DEF AfterSame, TrailPcs
    <3>4. CASE NextPc(j) = "certs"
      <4>1. ~disturbed => AfterSame(jobs'[j], meta', inbounds')
        BY <3>2, <3>3, <3>4 DEF AfterSame
      <4>2. QED
        BY <3>1, <3>2, <3>4, <4>1, MetaGoes DEF TrailPcs
    <3>5. CASE NextPc(j) = "reload"
      BY <3>1, <3>2, <3>3, <3>5, MetaEnds DEF TrailPcs
    <3>6. QED
      BY <3>4, <3>5 DEF NextPc
  <2>7. CASE RemoveCerts(j)
    <3>1. /\ jobs[j] \in NodeJob /\ jobs[j].pc = "certs" /\ Only(j)
          /\ UNCHANGED <<inbounds, meta, disturbed>>
          /\ jobs'[j] = NodeNow(jobs[j], "reload", jobs[j].copy, jobs[j].todo)
      BY <2>7, RemoveCertsStep DEF history
    <3>2. jobs[j] # Idle /\ jobs'[j] # Idle /\ jobs'[j].pc = "reload"
      BY <3>1, NodeNowKind
    <3>3. ~disturbed => Same(meta', inbounds')
      BY <3>1, <3>2, MetaOf DEF AfterSame, TrailPcs
    <3>4. QED
      BY <3>1, <3>2, <3>3, MetaEnds DEF TrailPcs
  <2>8. QED
    BY <1>2, <2>1, <2>2, <2>3, <2>4, <2>5, <2>6, <2>7, StepKinds
<1>3. CASE UNCHANGED vars
  BY <1>3 DEF vars, files, history, MetaInv, Trailing, At
<1>4. QED
  BY <1>1, <1>2, <1>3 DEF Next

(* Node commands that do not share their time after the lock leave           *)
(* config.json and nodes.meta.json in agreement on every node, however they  *)
(* interleave with the commands of users, with syncs and with each other.    *)
THEOREM MetaMatchesCorrect == Spec => []MetaMatches
<1>1. Spec => [](Types /\ MetaInv)
  BY TypesInit, TypesNext, MetaInit, MetaNext, PTL DEF Spec
<1>2. MetaInv => MetaMatches
  BY DEF MetaInv, MetaMatches, Matches, Same
<1>3. QED
  BY <1>1, <1>2, PTL

-----------------------------------------------------------------------------
(* Links fit.  What a subscription may read of the entries, m, for a node it *)
(* has loaded, after it has been overtaken by s.                             *)
Another(s) == {"del", "add"} \subseteq s
Bare(s) == s \cap {"cut", "add"} # {}

Readable(t, node, s, m) ==
  \/ Another(s)
  \/ t \notin DOMAIN m /\ Bare(s)
  \/ /\ t \in DOMAIN m
     /\ node.kind = "reality" => m[t].key = node.key
     /\ "edit" \in s \/ m[t].reuse = node.reuse

LEMMA ReadableMore ==
  ASSUME NEW t, NEW node, NEW s, NEW m, NEW r, s \subseteq r, Readable(t, node, s, m)
  PROVE  Readable(t, node, r, m)
  BY DEF Readable, Another, Bare

LEMMA ReadableSame ==
  ASSUME NEW t, NEW s, NEW m, NEW ib, Same(m, ib), t \in DOMAIN ib
  PROVE  Readable(t, ib[t], s, m)
  BY DEF Readable, Same

LEMMA ReadableNothing ==
  ASSUME NEW t, NEW node, NEW s, "cut" \in s
  PROVE  Readable(t, node, s, Nothing)
  BY DEF Readable, Nothing, Bare

LEMMA OverlappingMeans ==
  /\ \A t, e : e \in Overlapping(t) <=>
       \/ \E i \in Trailing : jobs[i].tag = t /\ jobs[i].cmd = e
       \/ e = "cut" /\ \E i \in Trailing : jobs[i].pc = "put"
  /\ \A t, e : e \in Overlapping(t)' <=>
       \/ \E i \in Trailing' : jobs'[i].tag = t /\ jobs'[i].cmd = e
       \/ e = "cut" /\ \E i \in Trailing' : jobs'[i].pc = "put"
  BY TrailingMeans DEF Overlapping, At, TrailPcs

\* A trailing command at its next step is what overlapped before, and a cut
\* when it has made one.
LEMMA OverlappingGoes ==
  ASSUME NEW j \in Jobs, Only(j), jobs[j] \in NodeJob, jobs[j].pc \in TrailPcs,
         NEW pc, NEW copy, NEW todo, jobs'[j] = NodeNow(jobs[j], pc, copy, todo)
  PROVE  /\ \A t : Overlapping(t)' \subseteq Overlapping(t) \cup {"cut"}
         /\ pc # "put" => \A t : Overlapping(t)' \subseteq Overlapping(t)
         /\ pc \in TrailPcs /\ pc # "put" /\ jobs[j].pc # "put" =>
              \A t : Overlapping(t)' = Overlapping(t)
         /\ pc = "put" => \A t : "cut" \in Overlapping(t)'
<1>1. /\ jobs[j] # Idle /\ jobs'[j] # Idle /\ jobs'[j].pc = pc
      /\ jobs'[j].cmd = jobs[j].cmd /\ jobs'[j].tag = jobs[j].tag
  BY NodeNowKind DEF NodeNow
<1>2. /\ j \in Trailing /\ (j \in Trailing' <=> pc \in TrailPcs)
      /\ \A i : i # j => (i \in Trailing' <=> i \in Trailing)
      /\ \A i \in Trailing \ {j} : jobs'[i] = jobs[i]
  BY <1>1, TrailingMeans DEF Only
<1>3. \A t : Overlapping(t)' \subseteq Overlapping(t) \cup {"cut"}
  BY <1>1, <1>2, OverlappingMeans
<1>4. pc # "put" => \A t : Overlapping(t)' \subseteq Overlapping(t)
  BY <1>1, <1>2, OverlappingMeans
<1>5. ASSUME pc \in TrailPcs, pc # "put", jobs[j].pc # "put", NEW t
      PROVE  Overlapping(t)' = Overlapping(t)
  <2>1. ASSUME NEW e PROVE e \in Overlapping(t)' <=> e \in Overlapping(t)
    BY <1>1, <1>2, <1>5, OverlappingMeans
  <2>2. QED
    BY <2>1
<1>6. pc = "put" => \A t : "cut" \in Overlapping(t)'
  <2>1. pc = "put" => j \in Trailing' /\ jobs'[j].pc = "put"
    BY <1>1, <1>2 DEF TrailPcs
  <2>2. QED
    BY <2>1, OverlappingMeans
<1>7. QED
  BY <1>3, <1>4, <1>5, <1>6

\* What a subscription that starts now may read.
GlimpseInv ==
  ~disturbed => \A t \in DOMAIN inbounds : Readable(t, inbounds[t], Overlapping(t), meta)

LEMMA GlimpseSame ==
  ASSUME ~disturbed' => Same(meta', inbounds')
  PROVE  GlimpseInv'
  BY ReadableSame DEF GlimpseInv

LEMMA GlimpseInit == Init => GlimpseInv
<1> SUFFICES ASSUME Init PROVE GlimpseInv
  OBVIOUS
<1>1. Trailing = {} /\ ~disturbed
  BY TrailingMeans DEF Init
<1>2. Same(meta, inbounds)
  BY <1>1, MetaInit DEF MetaInv
<1>3. QED
  BY <1>2, ReadableSame DEF GlimpseInv

LEMMA GlimpseChange ==
  ASSUME Types, MetaInv, NEW j \in Jobs, AddNode(j) \/ EditNode(j) \/ DeleteNode(j),
         ~disturbed', ~Still
  PROVE  GlimpseInv'
<1> DEFINE tag == jobs[j].tag
<1>1. /\ ~disturbed /\ Trailing = {} /\ Trailing' = {j} /\ UNCHANGED meta
      /\ jobs'[j].cmd = jobs[j].cmd /\ jobs'[j].tag = tag
      /\ \E entry : Change(j, inbounds', certs', entry)
  BY ChangeTrails
<1>2. jobs[j].cmd \in {"add", "edit", "del"}
  BY DEF AddNode, EditNode, DeleteNode
<1>3. Same(meta, inbounds)
  BY <1>1 DEF MetaInv
<1>4. ASSUME NEW t, t = tag PROVE jobs[j].cmd \in Overlapping(t)'
  BY <1>1, <1>4, OverlappingMeans
<1>5. /\ jobs[j].cmd = "del" => tag \notin DOMAIN inbounds'
      /\ jobs[j].cmd = "add" => tag \notin DOMAIN inbounds
      /\ jobs[j].cmd = "edit" => SameNode(tag, inbounds')
      /\ \A t : t # tag => OtherNode(t, inbounds')
  BY <1>1 DEF Change
<1> HIDE DEF tag
<1> SUFFICES ASSUME NEW t \in DOMAIN inbounds'
             PROVE  Readable(t, inbounds'[t], Overlapping(t)', meta)
  BY <1>1 DEF GlimpseInv
<1>6. CASE t # tag
  <2>1. t \in DOMAIN inbounds /\ inbounds'[t] = inbounds[t]
    BY <1>5, <1>6 DEF OtherNode
  <2>2. QED
    BY <1>3, <2>1, ReadableSame
<1>7. CASE t = tag
  <2>1. CASE jobs[j].cmd = "add"
    BY <1>3, <1>4, <1>5, <1>7, <2>1 DEF Readable, Same, Bare
  <2>2. CASE jobs[j].cmd = "edit"
    BY <1>3, <1>4, <1>5, <1>7, <2>2 DEF Readable, Same, SameNode
  <2>3. QED
    BY <1>2, <1>5, <1>7, <2>1, <2>2
<1>8. QED
  BY <1>6, <1>7

LEMMA StillOverlapping == Still => \A t : Overlapping(t)' = Overlapping(t)
<1> SUFFICES ASSUME Still, NEW t, NEW e PROVE e \in Overlapping(t)' <=> e \in Overlapping(t)
  OBVIOUS
<1>1. QED
  BY OverlappingMeans DEF Still

LEMMA GlimpseNext == Types /\ MetaInv /\ GlimpseInv /\ [Next]_vars => GlimpseInv'
<1> SUFFICES ASSUME Types, MetaInv, GlimpseInv, [Next]_vars PROVE GlimpseInv'
  OBVIOUS
<1>0. MetaInv'
  BY MetaNext
<1>1. ASSUME UNCHANGED <<inbounds, meta, jobs, disturbed>> PROVE GlimpseInv'
  BY <1>1 DEF GlimpseInv, Overlapping, Trailing, At
<1>2. CASE Subscription
  BY <1>1, <1>2, SubscriptionStill
<1>3. ASSUME NEW j \in Jobs, Step(j) PROVE GlimpseInv'
  <2>1. CASE Still
    <3>1. \A t : Overlapping(t)' = Overlapping(t)
      BY <2>1, StillOverlapping
    <3>2. QED
      BY <2>1, <3>1 DEF GlimpseInv, Still, Readable
  <2>2. CASE disturbed'
    BY <2>2 DEF GlimpseInv
  <2>3. CASE ~disturbed' /\ (AddNode(j) \/ EditNode(j) \/ DeleteNode(j)) /\ ~Still
    BY <2>3, GlimpseChange
  <2>4. CASE LoadMeta(j)
    <3>1. /\ UNCHANGED <<meta, inbounds, disturbed>> /\ Only(j)
          /\ jobs[j] \in NodeJob /\ jobs[j].pc = "load"
      BY <2>4, LoadStep DEF files, history
    <3>2. PICK pc, copy : /\ pc \in {"cut", "certs"}
                          /\ jobs'[j] = NodeNow(jobs[j], pc, copy, jobs[j].todo)
      BY <2>4, LoadStep
    <3>3. \A t : Overlapping(t)' = Overlapping(t)
      BY <3>1, <3>2, OverlappingGoes DEF TrailPcs
    <3>4. QED
      BY <3>1, <3>3 DEF GlimpseInv
  <2>5. CASE CutMeta(j)
    <3>1. /\ Only(j) /\ jobs[j] \in NodeJob /\ jobs[j].pc = "cut" /\ meta' = Nothing
          /\ jobs'[j] = NodeNow(jobs[j], "put", jobs[j].copy, jobs[j].todo)
      BY <2>5, CutStep
    <3>2. \A t : "cut" \in Overlapping(t)'
      BY <3>1, OverlappingGoes DEF TrailPcs
    <3>3. QED
      BY <3>1, <3>2, ReadableNothing DEF GlimpseInv
  <2>6. CASE PutMeta(j)
    <3>1. /\ jobs[j] \in NodeJob /\ jobs[j].pc = "put" /\ meta' = jobs[j].copy
          /\ UNCHANGED <<inbounds, disturbed>>
      BY <2>6, PutStep DEF history
    <3>2. ~disturbed => Same(meta', inbounds')
      BY <3>1, NodeNowKind, MetaOf DEF AfterSame, TrailPcs
    <3>3. QED
      BY <3>1, <3>2, GlimpseSame
  <2>7. CASE RemoveCerts(j)
    <3>1. /\ jobs[j] \in NodeJob /\ jobs[j].pc = "certs" /\ UNCHANGED <<inbounds, meta, disturbed>>
      BY <2>7, RemoveCertsStep DEF history
    <3>2. ~disturbed => Same(meta', inbounds')
      BY <3>1, NodeNowKind, MetaOf DEF AfterSame, TrailPcs
    <3>3. QED
      BY <3>1, <3>2, GlimpseSame
  <2>8. QED
    BY <1>3, <2>1, <2>2, <2>3, <2>4, <2>5, <2>6, <2>7, StepKinds
<1>4. CASE UNCHANGED vars
  BY <1>1, <1>4 DEF vars, files, history
<1>5. QED
  BY <1>2, <1>3, <1>4 DEF Next

(* A subscription under way has on record whatever overlaps it; its node is  *)
(* in config.json as it was loaded, or was edited, deleted or replaced since;*)
(* and what it has read, and will, is what the record allows.                *)
NodeKept(t, node, s, ib) ==
  \/ Another(s)
  \/ t \notin DOMAIN ib /\ "del" \in s
  \/ /\ t \in DOMAIN ib /\ ib[t].kind = node.kind /\ ib[t].key = node.key
     /\ "edit" \in s \/ ib[t].reuse = node.reuse

HasRead(r, s) ==
  /\ r.pc # "address" =>
       \/ r.reuse = r.node.reuse
       \/ r.reuse = FALSE /\ Bare(s)
       \/ "edit" \in s \/ Another(s)
  /\ r.pc = "link" /\ r.node.kind = "reality" =>
       r.key = r.node.key \/ (r.key = 0 /\ Bare(s)) \/ Another(s)

LinkInv ==
  ~disturbed /\ request # Idle =>
    /\ Overlapping(request.tag) \subseteq request.since
    /\ NodeKept(request.tag, request.node, request.since, inbounds)
    /\ Readable(request.tag, request.node, request.since, meta)
    /\ HasRead(request, request.since)

\* A longer record allows no less.
LEMMA RecordGrows ==
  ASSUME NEW s, NEW r, s \subseteq r
  PROVE  /\ \A t, node, ib : NodeKept(t, node, s, ib) => NodeKept(t, node, r, ib)
         /\ \A q : HasRead(q, s) => HasRead(q, r)
  BY DEF NodeKept, HasRead, Another, Bare

LEMMA LinkStill == LinkInv /\ Still => LinkInv'
<1> SUFFICES ASSUME LinkInv, Still, ~disturbed, request # Idle
             PROVE  LinkInv'
  BY DEF LinkInv, Still
<1>1. UNCHANGED <<request, meta, disturbed>> /\ Overlapping(request.tag)' = Overlapping(request.tag)
  <2>1. UNCHANGED <<request, meta, disturbed>>
    BY DEF Still
  <2>2. ASSUME NEW t, t = request.tag PROVE Overlapping(t)' = Overlapping(t)
    BY StillOverlapping
  <2>3. QED
    BY <2>1, <2>2 DEF Overlapping
<1>2. NodeKept(request.tag, request.node, request.since, inbounds')
  BY DEF LinkInv, NodeKept, Still
<1>3. QED
  BY <1>1, <1>2 DEF LinkInv

\* What an entry shows is what the record allows.
LEMMA EntryShows ==
  ASSUME NEW t, NEW node, NEW s, NEW m, Readable(t, node, s, m)
  PROVE  /\ \/ EntryOf(m, t).reuse = node.reuse
            \/ EntryOf(m, t).reuse = FALSE /\ Bare(s)
            \/ "edit" \in s \/ Another(s)
         /\ node.kind = "reality" =>
              EntryOf(m, t).key = node.key \/ (EntryOf(m, t).key = 0 /\ Bare(s)) \/ Another(s)
  BY DEF Readable, EntryOf, NoEntry

LEMMA LinkRequest ==
  ASSUME Types, GlimpseInv, LinkInv, Subscription
  PROVE  LinkInv'
<1>0. UNCHANGED <<inbounds, meta, disturbed>> /\ \A t : Overlapping(t)' = Overlapping(t)
  BY SubscriptionStill DEF Overlapping, At
<1>1. CASE Ask
  <2>1. PICK t \in DOMAIN inbounds :
          request' = [cmd |-> "ask", pc |-> "address", tag |-> t, node |-> inbounds[t],
                      reuse |-> FALSE, key |-> 0, since |-> Overlapping(t)]
    BY <1>1 DEF Ask
  <2>2. /\ request'.pc = "address" /\ request'.tag = t /\ request'.node = inbounds[t]
        /\ request'.since = Overlapping(t)
    BY <2>1
  <2>3. NodeKept(t, inbounds[t], Overlapping(t), inbounds)
    BY DEF NodeKept
  <2>4. ~disturbed => Readable(t, inbounds[t], Overlapping(t), meta)
    BY DEF GlimpseInv
  <2>5. HasRead(request', Overlapping(t))
    BY <2>2 DEF HasRead
  <2>6. Overlapping(request.tag)' = Overlapping(t)
    BY <1>0, <2>2 DEF Overlapping
  <2>7. QED
    BY <1>0, <2>2, <2>3, <2>4, <2>5, <2>6 DEF LinkInv
<1>2. ASSUME request \in Request, request' # Idle, request'.tag = request.tag,
             request'.node = request.node, request'.since = request.since,
             ~disturbed => HasRead(request', request.since)
      PROVE  LinkInv'
  <2>1. request # Idle
    BY <1>2, NotedOfFacts
  <2>2. Overlapping(request.tag)' = Overlapping(request.tag)
    BY <1>0, <1>2 DEF Overlapping
  <2>3. QED
    BY <1>0, <1>2, <2>1, <2>2 DEF LinkInv
<1>3. CASE ReadAddress
  <2>1. request \in Request /\ request # Idle /\ request.pc = "address"
    BY <1>3 DEF ReadAddress, Types
  <2> DEFINE reuse == EntryOf(meta, request.tag).reuse
             pc == IF request.node.kind = "reality" THEN "key" ELSE "link"
  <2>2. request' = [request EXCEPT !.reuse = reuse, !.pc = pc]
    BY <1>3 DEF ReadAddress
  <2> HIDE DEF reuse, pc
  <2>3. /\ request'.reuse = reuse /\ request'.pc = pc /\ request'.tag = request.tag
        /\ request'.node = request.node /\ request'.since = request.since
        /\ request'.cmd = "ask"
    BY <2>1, <2>2 DEF Request
  <2>4. request' # Idle
    BY <2>3 DEF Idle
  <2>5. request'.pc = "link" => request'.node.kind # "reality"
    BY <2>3 DEF pc
  <2>6. ~disturbed => HasRead(request', request.since)
    <3> SUFFICES ASSUME ~disturbed PROVE HasRead(request', request.since)
      OBVIOUS
    <3>0. Readable(request.tag, request.node, request.since, meta)
      BY <2>1 DEF LinkInv
    <3>1. \/ reuse = request.node.reuse
          \/ reuse = FALSE /\ Bare(request.since)
          \/ "edit" \in request.since \/ Another(request.since)
      BY ONLY <3>0, EntryShows DEF reuse
    <3>2. QED
      BY <2>3, <2>5, <3>1 DEF HasRead
  <2>7. QED
    BY <1>2, <2>1, <2>3, <2>4, <2>6
<1>4. CASE ReadKey
  <2>1. request \in Request /\ request # Idle /\ request.pc = "key"
    BY <1>4 DEF ReadKey, Types
  <2> DEFINE key == EntryOf(meta, request.tag).key
  <2>2. request' = [request EXCEPT !.key = key, !.pc = "link"]
    BY <1>4 DEF ReadKey
  <2> HIDE DEF key
  <2>3. /\ request'.key = key /\ request'.pc = "link" /\ request'.tag = request.tag
        /\ request'.node = request.node /\ request'.since = request.since
        /\ request'.reuse = request.reuse /\ request'.cmd = "ask"
    BY <2>1, <2>2 DEF Request
  <2>4. request' # Idle
    BY <2>3 DEF Idle
  <2>5. ~disturbed => HasRead(request', request.since)
    <3> SUFFICES ASSUME ~disturbed PROVE HasRead(request', request.since)
      OBVIOUS
    <3>0. Readable(request.tag, request.node, request.since, meta)
      BY <2>1 DEF LinkInv
    <3>1. request.node.kind = "reality" =>
            key = request.node.key \/ (key = 0 /\ Bare(request.since)) \/ Another(request.since)
      BY ONLY <3>0, EntryShows DEF key
    <3>2. HasRead(request, request.since)
      BY <2>1 DEF LinkInv
    <3>3. QED
      BY <2>1, <2>3, <3>1, <3>2 DEF HasRead
  <2>6. QED
    BY <1>2, <2>1, <2>3, <2>4, <2>5
<1>5. CASE Reply
  BY <1>5 DEF Reply, LinkInv
<1>6. QED
  BY <1>1, <1>3, <1>4, <1>5 DEF Subscription

\* A change that is saved is on record, if it is of the node.
LEMMA LinkChange ==
  ASSUME Types, LinkInv, NEW j \in Jobs, AddNode(j) \/ EditNode(j) \/ DeleteNode(j),
         ~disturbed', ~Still, request # Idle
  PROVE  LinkInv'
<1> DEFINE tag == jobs[j].tag
           t == request.tag
           s == request'.since
<1>1. /\ ~disturbed /\ Trailing = {} /\ Trailing' = {j} /\ UNCHANGED meta
      /\ request' = RequestAfter(j) /\ jobs'[j].pc = "load"
      /\ jobs'[j].cmd = jobs[j].cmd /\ jobs'[j].tag = tag
      /\ \E entry : Change(j, inbounds', certs', entry)
  BY ChangeTrails
<1>2. request \in Request /\ jobs[j].cmd \in {"add", "edit", "del"}
  BY DEF Types, AddNode, EditNode, DeleteNode
<1>3. /\ request' # Idle /\ request'.tag = t /\ request'.node = request.node
      /\ request'.pc = request.pc /\ request'.reuse = request.reuse /\ request'.key = request.key
      /\ request.since \subseteq s /\ (t = tag => jobs[j].cmd \in s)
  BY <1>1, <1>2, NotedOfFacts DEF RequestAfter, NodeCmds
<1>4. /\ jobs[j].cmd = "del" => tag \notin DOMAIN inbounds'
      /\ jobs[j].cmd = "add" => tag \notin DOMAIN inbounds
      /\ jobs[j].cmd = "edit" => SameNode(tag, inbounds')
      /\ \A x : x # tag => OtherNode(x, inbounds')
  BY <1>1 DEF Change
<1>5. Overlapping(request.tag)' \subseteq s
  <2>1. \A e : e \in Overlapping(request.tag)' <=>
          \/ \E i \in Trailing' : jobs'[i].tag = request'.tag /\ jobs'[i].cmd = e
          \/ e = "cut" /\ \E i \in Trailing' : jobs'[i].pc = "put"
    BY TrailingMeans DEF Overlapping, At, TrailPcs
  <2>2. QED
    BY <1>1, <1>3, <2>1
<1>6. /\ NodeKept(t, request.node, request.since, inbounds)
      /\ Readable(t, request.node, request.since, meta)
      /\ HasRead(request, request.since)
  BY <1>1 DEF LinkInv
<1> HIDE DEF tag, t, s
<1>7. NodeKept(t, request.node, s, inbounds')
  <2>1. NodeKept(t, request.node, s, inbounds)
    BY <1>3, <1>6, RecordGrows
  <2>2. CASE t # tag
    BY <1>4, <2>1, <2>2 DEF NodeKept, OtherNode
  <2>3. CASE t = tag /\ jobs[j].cmd = "add"
    BY <1>3, <1>4, <2>1, <2>3 DEF NodeKept, Another
  <2>4. CASE t = tag /\ jobs[j].cmd = "edit"
    BY <1>3, <1>4, <2>1, <2>4 DEF NodeKept, SameNode
  <2>5. CASE t = tag /\ jobs[j].cmd = "del"
    BY <1>3, <1>4, <2>5 DEF NodeKept
  <2>6. QED
    BY <1>2, <2>2, <2>3, <2>4, <2>5
<1>8. Readable(t, request.node, s, meta)
  BY <1>3, <1>6, ReadableMore
<1>9. HasRead(request, s)
  BY <1>3, <1>6, RecordGrows
<1>10. HasRead(request', s)
  BY <1>3, <1>9 DEF HasRead
<1>11. QED
  BY <1>1, <1>3, <1>5, <1>7, <1>8, <1>10 DEF LinkInv, t, s

\* A step of a trailing command on the entries or its certificates.
LEMMA LinkGoes ==
  ASSUME LinkInv, UNCHANGED <<inbounds, request, disturbed>>,
         \A t : Overlapping(t)' \subseteq Overlapping(t),
         ~disturbed /\ request # Idle =>
           Readable(request.tag, request.node, request.since, meta')
  PROVE  LinkInv'
<1>1. Overlapping(request.tag)' \subseteq Overlapping(request.tag)
  BY DEF Overlapping
<1>2. QED
  BY <1>1 DEF LinkInv

LEMMA LinkCut ==
  ASSUME Types, LinkInv, NEW j \in Jobs, CutMeta(j), request # Idle, ~disturbed
  PROVE  LinkInv'
<1>1. /\ UNCHANGED <<inbounds, disturbed>> /\ meta' = Nothing /\ Only(j)
      /\ jobs[j] \in NodeJob /\ jobs[j].pc = "cut"
      /\ jobs'[j] = NodeNow(jobs[j], "put", jobs[j].copy, jobs[j].todo)
      /\ request' = NotedOf(request, "cut")
  BY CutStep DEF history
<1>2. request \in Request
  BY DEF Types
<1>3. /\ request' # Idle /\ request'.tag = request.tag /\ request'.node = request.node
      /\ request'.pc = request.pc /\ request'.reuse = request.reuse /\ request'.key = request.key
      /\ request'.since = request.since \cup {"cut"}
  BY <1>1, <1>2, NotedOfFacts
<1>4. \A t : Overlapping(t)' \subseteq Overlapping(t) \cup {"cut"}
  BY <1>1, OverlappingGoes DEF TrailPcs
<1>5. Overlapping(request.tag)' \subseteq Overlapping(request.tag) \cup {"cut"}
  BY <1>3, <1>4 DEF Overlapping
<1>6. NodeKept(request.tag, request.node, request'.since, inbounds)
  BY <1>3, RecordGrows DEF LinkInv
<1>7. HasRead(request, request'.since)
  BY <1>3, RecordGrows DEF LinkInv
<1>8. HasRead(request', request'.since)
  BY <1>3, <1>7 DEF HasRead
<1>9. Readable(request.tag, request.node, request'.since, Nothing)
  BY <1>3, ReadableNothing
<1>10. Overlapping(request.tag) \subseteq request.since
  BY DEF LinkInv
<1>11. QED
  BY <1>1, <1>3, <1>5, <1>6, <1>8, <1>9, <1>10 DEF LinkInv

\* What is put in place agrees with config.json, whose node has been kept.
LEMMA LinkPut ==
  ASSUME Types, MetaInv, LinkInv, NEW j \in Jobs, PutMeta(j)
  PROVE  LinkInv'
<1>1. /\ jobs[j] \in NodeJob /\ jobs[j].pc = "put" /\ meta' = jobs[j].copy /\ Only(j)
      /\ UNCHANGED <<inbounds, request, disturbed>>
      /\ jobs'[j] = NodeNow(jobs[j], NextPc(j), jobs[j].copy, jobs[j].todo)
  BY PutStep DEF history
<1>2. jobs[j] # Idle /\ jobs[j].pc \in TrailPcs
  BY <1>1, NodeNowKind DEF TrailPcs
<1>3. \A t : Overlapping(t)' \subseteq Overlapping(t)
  <2>1. PICK pc : /\ pc \in {"certs", "reload"}
                  /\ jobs'[j] = NodeNow(jobs[j], pc, jobs[j].copy, jobs[j].todo)
    BY <1>1 DEF NextPc
  <2>2. QED
    BY <1>1, <2>1, OverlappingGoes DEF TrailPcs
<1>4. ASSUME ~disturbed, request # Idle
      PROVE  Readable(request.tag, request.node, request.since, meta')
  <2>1. Same(meta', inbounds)
    BY <1>1, <1>2, <1>4, MetaOf DEF AfterSame
  <2>2. "cut" \in request.since
    <3>1. j \in Trailing
      BY <1>2, TrailingMeans
    <3>2. "cut" \in Overlapping(request.tag)
      BY <1>1, <3>1, OverlappingMeans
    <3>3. QED
      BY <1>4, <3>2 DEF LinkInv
  <2>3. NodeKept(request.tag, request.node, request.since, inbounds)
    BY <1>4 DEF LinkInv
  <2>4. QED
    BY <2>1, <2>2, <2>3 DEF Readable, NodeKept, Same, Bare
<1>5. QED
  BY <1>1, <1>3, <1>4, LinkGoes

LEMMA LinkNext == Types /\ MetaInv /\ GlimpseInv /\ LinkInv /\ [Next]_vars => LinkInv'
<1> SUFFICES ASSUME Types, MetaInv, GlimpseInv, LinkInv, [Next]_vars PROVE LinkInv'
  OBVIOUS
<1>1. CASE Subscription
  BY <1>1, LinkRequest
<1>2. ASSUME NEW j \in Jobs, Step(j) PROVE LinkInv'
  <2>1. CASE Still
    BY <2>1, LinkStill
  <2>2. CASE disturbed'
    BY <2>2 DEF LinkInv
  <2>3. CASE ~disturbed' /\ (AddNode(j) \/ EditNode(j) \/ DeleteNode(j)) /\ ~Still
    <3>1. CASE request = Idle
      <4>1. request' = Idle
        BY <2>3, <3>1, ChangeTrails DEF RequestAfter
      <4>2. QED
        BY <4>1 DEF LinkInv
    <3>2. CASE request # Idle
      BY <2>3, <3>2, LinkChange
    <3>3. QED
      BY <3>1, <3>2
  <2>4. CASE LoadMeta(j)
    <3>1. /\ UNCHANGED <<meta, inbounds, request, disturbed>> /\ Only(j)
          /\ jobs[j] \in NodeJob /\ jobs[j].pc = "load"
      BY <2>4, LoadStep DEF files, history
    <3>2. PICK pc, copy : /\ pc \in {"cut", "certs"}
                          /\ jobs'[j] = NodeNow(jobs[j], pc, copy, jobs[j].todo)
      BY <2>4, LoadStep
    <3>3. \A t : Overlapping(t)' \subseteq Overlapping(t)
      BY <3>1, <3>2, OverlappingGoes DEF TrailPcs
    <3>4. QED
      BY <3>1, <3>3, LinkGoes DEF LinkInv
  <2>5. CASE CutMeta(j)
    <3>1. CASE disturbed
      BY <2>5, <3>1, CutStep DEF history, LinkInv
    <3>2. CASE request = Idle
      BY <2>5, <3>2, CutStep DEF LinkInv
    <3>3. QED
      BY <2>5, <3>1, <3>2, LinkCut
  <2>6. CASE PutMeta(j)
    BY <2>6, LinkPut
  <2>7. CASE RemoveCerts(j)
    <3>1. /\ UNCHANGED <<meta, inbounds, request, disturbed>> /\ Only(j)
          /\ jobs[j] \in NodeJob /\ jobs[j].pc = "certs"
          /\ jobs'[j] = NodeNow(jobs[j], "reload", jobs[j].copy, jobs[j].todo)
      BY <2>7, RemoveCertsStep DEF history
    <3>2. \A t : Overlapping(t)' \subseteq Overlapping(t)
      <4>1. jobs[j].pc \in TrailPcs /\ "reload" # "put"
        BY <3>1 DEF TrailPcs
      <4>2. QED
        BY <3>1, <4>1, OverlappingGoes
    <3>3. QED
      BY <3>1, <3>2, LinkGoes DEF LinkInv
  <2>8. QED
    BY <1>2, <2>1, <2>2, <2>3, <2>4, <2>5, <2>6, <2>7, StepKinds
<1>3. CASE UNCHANGED vars
  BY <1>3 DEF vars, files, history, LinkInv, Overlapping, Trailing, At
<1>4. QED
  BY <1>1, <1>2, <1>3 DEF Next

(* handle_sub: it loads config.json once and the file of entries twice, and  *)
(* other commands change both meanwhile.  A link it hands out still fits the *)
(* node it was made for, but for this: it has no key or no 443 when a command*)
(* cut the file meanwhile or its own node was being added; the port of an    *)
(* edit under way; what belongs to another node when its own was deleted and *)
(* one was added under its tag; and anything once two node commands have     *)
(* shared their time after the lock or one has ended in it.                  *)
THEOREM LinkFitsCorrect == Spec => []LinkFits
<1>1. Init => LinkInv
  BY DEF Init, LinkInv
<1>2. Spec => [](Types /\ MetaInv /\ GlimpseInv /\ LinkInv)
  BY <1>1, TypesInit, TypesNext, MetaInit, MetaNext, GlimpseInit, GlimpseNext, LinkNext,
     PTL DEF Spec
<1>3. LinkInv => LinkFits
  BY DEF LinkInv, LinkFits, HasRead, Bare, Another
<1>4. QED
  BY <1>2, <1>3, PTL
=============================================================================
