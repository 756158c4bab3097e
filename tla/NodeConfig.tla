----------------------------- MODULE NodeConfig -----------------------------
(* Nodes and who may use them.  A node is an inbound of config.json, an      *)
(* entry of nodes.meta.json (what links need and sing-box does not read) and,*)
(* for protocols with a certificate of their own, two files.  Who may use it *)
(* is in the users table, and repeated in the inbound by every sync.         *)
(*                                                                           *)
(* config.json is changed under the runtime lock, in one step here           *)
(* (RuntimeSync has its parts); the other files are changed after the lock   *)
(* is released, and rows of the users table are read and written back.       *)
(* Commands of the CLI, keys of the terminal interface and the supervisor    *)
(* run at the same time; a reader of the subscription server may come in     *)
(* between.  What sing-box serves, whether a user is enabled, and the fields *)
(* of a node that are only in config.json are left out.                      *)
EXTENDS Integers, FiniteSets, Functions

CONSTANTS
  Users, Tags,
  Kinds,       \* kinds of nodes: "reality", "tls", "plain"
  StartNodes,  \* the tags of the nodes that exist at the start
  Jobs,        \* commands that run at the same time
  MaxCmds,     \* commands in a behaviour (bound)
  MaxFaults    \* failures and kills in a behaviour (bound)

ASSUME NodeAssumption ==
  /\ StartNodes \subseteq Tags
  /\ MaxCmds \in Nat /\ MaxFaults \in Nat /\ Kinds \subseteq {"reality", "tls", "plain"}

VARIABLES
  inbounds,    \* config.json: the inbounds by tag
  meta,        \* nodes.meta.json: the entries by tag; none when cut or unreadable
  certs,       \* the tags with a certificate and a key file
  rows,        \* the users table: who may use which nodes
  jobs,
  request,     \* the subscription being rendered
  cmds, faults,
  disturbed,   \* history: two node commands shared their time after the lock,
               \* or one of them ended in it
  dropped,     \* history: users whose change no sync has carried since it failed
  overtaken    \* history: users whom the clean-up of a deleted node took a node
               \* that exists, since the last sync

files == <<inbounds, meta, certs>>
history == <<disturbed, dropped, overtaken>>
vars == <<files, rows, jobs, request, cmds, faults, history>>

(* reality needs the key of its entry in every link, tls its certificate;    *)
(* key numbers stand for key pairs: 0 for none, OldKey for one that was made *)
(* before, the number of the command for a new one.                          *)
OldKey == MaxCmds + 1
Keys == 0..OldKey
Inbound == [kind : Kinds, key : Keys, reuse : BOOLEAN, listed : SUBSET Users]
Entry == [key : Keys, reuse : BOOLEAN, relay : BOOLEAN]
NoEntry == [key |-> 0, reuse |-> FALSE, relay |-> FALSE]
IsPartial(f, D, S) == DOMAIN f \subseteq D /\ f \in [DOMAIN f -> S]
Nothing == [t \in {} |-> NoEntry]

Row == [all : BOOLEAN, tags : SUBSET Tags]
CanUse(u, t) == rows[u].all \/ t \in rows[u].tags

\* Seeded fault: a missing entry has -1 for its key.
EntryOfUnset(m, t) == IF t \in DOMAIN m THEN m[t] ELSE [NoEntry EXCEPT !.key = -1]
EntryOf(m, t) == IF t \in DOMAIN m THEN m[t] ELSE NoEntry
With(f, t, v) == [s \in DOMAIN f \cup {t} |-> IF s = t THEN v ELSE f[s]]
Without(f, t) == Restrict(f, DOMAIN f \ {t})

(* sing-box check opens the certificates. *)
Accepts(ib, cs) == \A t \in DOMAIN ib : ib[t].kind = "tls" => t \in cs

Idle == [cmd |-> "idle"]
NodeCmds == {"add", "edit", "del"}

(* The nodes of the start are as finished commands and a sync have left them.*)
Init ==
  /\ rows \in [Users -> Row]
  /\ inbounds \in [StartNodes -> Inbound]
  /\ \A t \in StartNodes :
       /\ inbounds[t].key = IF inbounds[t].kind = "reality" THEN OldKey ELSE 0
       /\ inbounds[t].reuse = FALSE
       /\ inbounds[t].listed = {u \in Users : CanUse(u, t)}
  /\ meta = [t \in StartNodes |-> [NoEntry EXCEPT !.key = inbounds[t].key]]
  /\ certs = {t \in StartNodes : inbounds[t].kind = "tls"}
  /\ jobs = [j \in Jobs |-> Idle]
  /\ request = Idle
  /\ cmds = 0 /\ faults = 0
  /\ disturbed = FALSE /\ dropped = {} /\ overtaken = {}

At(j, pc) == jobs[j] # Idle /\ jobs[j].pc = pc
Go(j, pc) == jobs' = [jobs EXCEPT ![j].pc = pc]
End(j) == jobs' = [jobs EXCEPT ![j] = Idle]

(* A failure, a refused check, an error of the file system or a kill. *)
Fault == faults < MaxFaults /\ faults' = faults + 1

(* Node commands with work left on the other files. *)
Trailing == {j \in Jobs : \E pc \in {"load", "cut", "put", "certs"} : At(j, pc)}
(* What a subscription under way has been overtaken by is on record: changes *)
(* of its node that were saved or not yet written out, and the cut of the    *)
(* file of entries by anybody.                                               *)
Noted(what) ==
  request' = IF request = Idle THEN request ELSE [request EXCEPT !.since = @ \cup {what}]

IsJob(job) ==
  CASE job.cmd \in NodeCmds ->
         /\ job = [cmd |-> job.cmd, tag |-> job.tag, pc |-> job.pc, entry |-> job.entry,
                   copy |-> job.copy, todo |-> job.todo]
         /\ job.pc \in {"config", "load", "cut", "put", "certs", "reload", "list", "clean"}
         /\ job.pc \in {"certs", "list", "clean"} => job.cmd = "del"
         /\ job.tag \in Tags /\ job.entry \in Entry
         /\ IsPartial(job.copy, Tags, Entry) /\ IsPartial(job.todo, Users, SUBSET Tags)
    [] job.cmd \in {"grant", "revoke"} ->
         /\ job = [cmd |-> job.cmd, tag |-> job.tag, user |-> job.user, pc |-> job.pc,
                   exist |-> job.exist, row |-> job.row]
         /\ job.pc \in {"read", "write", "sync"} /\ job.tag \in Tags /\ job.user \in Users
         /\ job.exist \subseteq Tags /\ job.row \in Row
    [] job.cmd = "pick" ->
         /\ job = [cmd |-> "pick", user |-> job.user, pc |-> job.pc, exist |-> job.exist]
         /\ job.pc \in {"write", "sync"} /\ job.user \in Users /\ job.exist \subseteq Tags
    [] OTHER -> job = [cmd |-> "sync", pc |-> "sync"]

IsRequest(r) ==
  /\ r = [cmd |-> "ask", pc |-> r.pc, tag |-> r.tag, node |-> r.node, reuse |-> r.reuse,
          key |-> r.key, since |-> r.since]
  /\ r.pc \in {"address", "key", "link"} /\ r.tag \in Tags /\ r.node \in Inbound
  /\ r.reuse \in BOOLEAN /\ r.key \in Keys /\ r.since \subseteq NodeCmds \cup {"cut"}

-----------------------------------------------------------------------------
(* Commands come in. *)
Begin(j) ==
  /\ jobs[j] = Idle /\ cmds < MaxCmds /\ cmds' = cmds + 1
  /\ UNCHANGED <<files, rows, request, faults, history>>

(* sb node add, edit, del and the keys [a], [E], [d] of the nodes page.  The *)
(* number of the command stands for the key pair it may make.                *)
NodeCommand(j) ==
  /\ Begin(j)
  /\ \E cmd \in NodeCmds, t \in Tags :
       jobs' = [jobs EXCEPT ![j] = [cmd |-> cmd, tag |-> t, pc |-> "config",
                                    entry |-> [NoEntry EXCEPT !.key = cmds + 1],
                                    copy |-> Nothing, todo |-> Nothing]]

(* sb grant and revoke look at the tags of config.json and then at the row;  *)
(* grant refuses a missing tag.                                              *)
GrantCommand(j) ==
  /\ Begin(j)
  /\ \E cmd \in {"grant", "revoke"}, u \in Users, t \in Tags :
       /\ cmd = "grant" => t \in DOMAIN inbounds
       /\ jobs' = [jobs EXCEPT ![j] = [cmd |-> cmd, tag |-> t, user |-> u, pc |-> "read",
                                       exist |-> DOMAIN inbounds, row |-> rows[u]]]

(* The picker of the terminal interface keeps the tags it was opened with;   *)
(* sb grant-all is the picker with everything ticked.                        *)
Picker(j) ==
  /\ Begin(j)
  /\ \E u \in Users :
       jobs' = [jobs EXCEPT ![j] = [cmd |-> "pick", user |-> u, pc |-> "write",
                                    exist |-> DOMAIN inbounds]]

(* The sync of any other change of a user, and of the supervisor. *)
SyncCommand(j) ==
  Begin(j) /\ jobs' = [jobs EXCEPT ![j] = [cmd |-> "sync", pc |-> "sync"]]

-----------------------------------------------------------------------------
(* The part of a node command under the lock: what it makes of the inbounds  *)
(* and certificates, and the entry it will write.  sing-box checks the file  *)
(* before it is put in place.                                                *)
Saved(j, ib, cs, entry) ==
  /\ certs' = cs
  /\ IF Accepts(ib, cs)
     THEN /\ inbounds' = ib
          /\ jobs' = [jobs EXCEPT ![j].pc = "load", ![j].entry = entry]
          /\ disturbed' = (disturbed \/ Trailing # {})
          /\ IF request # Idle /\ request.tag = jobs[j].tag
             THEN Noted(jobs[j].cmd) ELSE UNCHANGED request
     ELSE End(j) /\ UNCHANGED <<inbounds, disturbed, request>>
  /\ UNCHANGED <<meta, rows, cmds, faults, dropped, overtaken>>

(* Key pairs are made for reality only.  Any other node keeps the key of an  *)
(* entry left under its tag.                                                 *)
AddNode(j) ==
  LET t == jobs[j].tag IN
  /\ At(j, "config") /\ jobs[j].cmd = "add" /\ t \notin DOMAIN inbounds
  /\ \E kind \in Kinds, v, r \in BOOLEAN :
       LET key == IF kind = "reality" THEN jobs[j].entry.key ELSE 0 IN
       Saved(j, With(inbounds, t, [kind |-> kind, key |-> key, reuse |-> v, listed |-> {}]),
             IF kind = "tls" THEN certs \cup {t} ELSE certs,
             [key |-> IF kind = "reality" THEN key ELSE EntryOf(meta, t).key,
              reuse |-> v, relay |-> r])

\* Seeded fault: an edit starts from an empty entry.
KeptNone(t) == NoEntry
(* What an edit is not asked to change stays as the file has it now. *)
Kept(t) == EntryOf(meta, t)

EditNode(j) ==
  LET t == jobs[j].tag IN
  /\ At(j, "config") /\ jobs[j].cmd = "edit" /\ t \in DOMAIN inbounds
  /\ \E v, r \in BOOLEAN :
       \/ Saved(j, [inbounds EXCEPT ![t].reuse = v], certs,
                [Kept(t) EXCEPT !.reuse = v, !.relay = r])
       \/ Saved(j, inbounds, certs, [Kept(t) EXCEPT !.relay = r])

(* A port, a name or a path is in config.json alone: no entry is written.    *)
EditInbound(j) ==
  /\ At(j, "config") /\ jobs[j].cmd = "edit" /\ jobs[j].tag \in DOMAIN inbounds
  /\ IF Accepts(inbounds, certs) THEN Go(j, "reload") ELSE End(j)
  /\ UNCHANGED <<files, rows, request, cmds, faults, history>>

DeleteNode(j) ==
  LET t == jobs[j].tag IN
  /\ At(j, "config") /\ jobs[j].cmd = "del" /\ t \in DOMAIN inbounds
  /\ Saved(j, Without(inbounds, t), certs, NoEntry)

\* Seeded fault: the other files are changed although the change was not saved.
RefusedButApplied(j) ==
  /\ At(j, "config")
  /\ Fault /\ UNCHANGED certs
  /\ Go(j, "load")
  /\ UNCHANGED <<inbounds, meta, rows, request, cmds, history>>

(* The tag exists already, or does not; or something fails before the file is*)
(* in place, a certificate may have been made by then.                       *)
Refused(j) ==
  /\ At(j, "config")
  /\ \/ (jobs[j].cmd = "add") = (jobs[j].tag \in DOMAIN inbounds) /\ UNCHANGED <<certs, faults>>
     \/ Fault /\ UNCHANGED certs
     \/ Fault /\ jobs[j].cmd = "add" /\ certs' = certs \cup {jobs[j].tag}
  /\ End(j)
  /\ UNCHANGED <<inbounds, meta, rows, request, cmds, history>>

-----------------------------------------------------------------------------
(* After the lock: the file of entries is read, cut and written, and read by *)
(* anybody in between.  A tag without an entry needs no writing.             *)
LoadMeta(j) ==
  LET t == jobs[j].tag IN
  /\ At(j, "load")
  /\ CASE jobs[j].cmd # "del" ->
            jobs' = [jobs EXCEPT ![j].copy = With(meta, t, jobs[j].entry), ![j].pc = "cut"]
       [] jobs[j].cmd = "del" /\ t \in DOMAIN meta ->
            jobs' = [jobs EXCEPT ![j].copy = Without(meta, t), ![j].pc = "cut"]
       [] OTHER -> Go(j, "certs")
  /\ UNCHANGED <<files, rows, request, cmds, faults, history>>

AfterMeta(j) == Go(j, IF jobs[j].cmd = "del" THEN "certs" ELSE "reload")

CutMeta(j) ==
  /\ At(j, "cut") /\ meta' = Nothing /\ Go(j, "put") /\ Noted("cut")
  /\ UNCHANGED <<inbounds, certs, rows, cmds, faults, history>>

\* Seeded fault: the new entry is written by itself.
PutEntry(j) ==
  /\ At(j, "put") /\ meta' = Restrict(jobs[j].copy, {jobs[j].tag} \cap DOMAIN jobs[j].copy)
  /\ AfterMeta(j)
  /\ UNCHANGED <<inbounds, certs, rows, request, cmds, faults, history>>
PutMeta(j) ==
  /\ At(j, "put") /\ meta' = jobs[j].copy /\ AfterMeta(j)
  /\ UNCHANGED <<inbounds, certs, rows, request, cmds, faults, history>>

(* A file that cannot be written is a warning in the log. *)
MetaFails(j) ==
  /\ At(j, "cut") \/ At(j, "put")
  /\ Fault /\ AfterMeta(j)
  /\ disturbed' = TRUE
  /\ UNCHANGED <<files, rows, request, cmds, dropped, overtaken>>

RemoveCerts(j) ==
  /\ At(j, "certs") /\ certs' = certs \ {jobs[j].tag} /\ Go(j, "reload")
  /\ UNCHANGED <<inbounds, meta, rows, request, cmds, faults, history>>

(* validate_and_reload.  The CLI ends with its error, the terminal interface *)
(* shows it and goes on to the clean-up of the users.                        *)
Reload(j) ==
  /\ At(j, "reload")
  /\ \/ (IF jobs[j].cmd = "del" THEN Go(j, "list") ELSE End(j)) /\ UNCHANGED faults
     \/ ~Accepts(inbounds, certs) /\ End(j) /\ UNCHANGED faults
     \/ Fault /\ End(j)
  /\ UNCHANGED <<files, rows, request, cmds, history>>

(* remove_allowed_tag_from_all_users: the users are listed, then the rows of *)
(* those who had the tag are written back without it.                        *)
CleanList(j) ==
  LET t == jobs[j].tag
      had == {u \in Users : ~rows[u].all /\ t \in rows[u].tags} IN
  /\ At(j, "list")
  /\ IF had = {} THEN End(j)
     ELSE jobs' = [jobs EXCEPT ![j].todo = [u \in had |-> rows[u].tags \ {t}], ![j].pc = "clean"]
  /\ UNCHANGED <<files, rows, request, cmds, faults, history>>

CleanRow(j) ==
  /\ At(j, "clean")
  /\ \E u \in DOMAIN jobs[j].todo :
       LET left == Restrict(jobs[j].todo, DOMAIN jobs[j].todo \ {u}) IN
       /\ rows' = [rows EXCEPT ![u] = [all |-> FALSE, tags |-> jobs[j].todo[u]]]
       /\ IF DOMAIN left = {} THEN End(j) ELSE jobs' = [jobs EXCEPT ![j].todo = left]
       /\ overtaken' = IF \E t \in DOMAIN inbounds : CanUse(u, t) /\ ~CanUse(u, t)'
                       THEN overtaken \cup {u} ELSE overtaken
  /\ UNCHANGED <<files, request, cmds, faults, disturbed, dropped>>

-----------------------------------------------------------------------------
(* A row is read, and written back whole; then the inbounds are synced. *)
ReadRow(j) ==
  /\ At(j, "read")
  /\ jobs' = [jobs EXCEPT ![j].row = rows[jobs[j].user], ![j].pc = "write"]
  /\ UNCHANGED <<files, rows, request, cmds, faults, history>>

(* A user who had everything starts with an empty list when he is granted a  *)
(* node, and with all the others when one is revoked.                        *)
Written(job) ==
  CASE job.cmd = "grant" -> {job.row.tags \cup {job.tag}}
    [] job.cmd = "revoke" -> {(IF job.row.all THEN job.exist ELSE job.row.tags) \ {job.tag}}
    [] OTHER -> SUBSET job.exist

WriteRow(j) ==
  /\ At(j, "write")
  /\ \/ \E tags \in Written(jobs[j]) :
          rows' = [rows EXCEPT ![jobs[j].user] = [all |-> FALSE, tags |-> tags]]
     \/ jobs[j].cmd = "pick" /\ rows' = [rows EXCEPT ![jobs[j].user] = [all |-> TRUE, tags |-> {}]]
  /\ Go(j, "sync")
  /\ UNCHANGED <<files, request, cmds, faults, history>>

\* Seeded fault: the entries of users who may no longer use the node stay.
SyncedAdds == [t \in DOMAIN inbounds |->
                 [inbounds[t] EXCEPT !.listed = @ \cup {u \in Users : CanUse(u, t)}]]
(* sync_users rebuilds the list of every inbound from the users table. *)
Synced == [t \in DOMAIN inbounds |-> [inbounds[t] EXCEPT !.listed = {u \in Users : CanUse(u, t)}]]

Sync(j) ==
  /\ At(j, "sync") /\ Accepts(inbounds, certs)
  /\ inbounds' = Synced
  /\ End(j)
  /\ dropped' = {} /\ overtaken' = {}
  /\ UNCHANGED <<meta, certs, rows, request, cmds, faults, disturbed>>

(* Whoever a job has changed in the table and not yet in the inbounds. *)
Owes(j) == IF At(j, "sync") /\ jobs[j].cmd # "sync" THEN {jobs[j].user} ELSE {}

SyncFails(j) ==
  /\ At(j, "sync")
  /\ IF Accepts(inbounds, certs) THEN Fault ELSE UNCHANGED faults
  /\ End(j)
  /\ dropped' = dropped \cup Owes(j)
  /\ UNCHANGED <<files, rows, request, cmds, disturbed, overtaken>>

(* A process is killed; or its commit fails after the file is in place. *)
Kill(j) ==
  /\ jobs[j] # Idle /\ Fault /\ End(j)
  /\ disturbed' = (disturbed \/ j \in Trailing)
  /\ dropped' = dropped \cup Owes(j)
  /\ UNCHANGED <<files, rows, request, cmds, overtaken>>

-----------------------------------------------------------------------------
(* A subscription: the inbounds are loaded first; then, for every node that  *)
(* lists the user, the file of entries is read for the address and the port, *)
(* and once more for the public key of a reality node.  Here one of the nodes*)
(* of a reply.                                                               *)
Overlapping(t) ==
  {jobs[j].cmd : j \in {i \in Trailing : jobs[i].tag = t}}
  \cup {e \in {"cut"} : \E j \in Jobs : At(j, "put")}

Ask ==
  /\ request = Idle
  /\ \E t \in DOMAIN inbounds :
       /\ inbounds[t].listed # {}
       /\ request' = [cmd |-> "ask", pc |-> "address", tag |-> t, node |-> inbounds[t],
                      reuse |-> FALSE, key |-> 0, since |-> Overlapping(t)]
  /\ UNCHANGED <<files, rows, jobs, cmds, faults, history>>

ReadAddress ==
  /\ request # Idle /\ request.pc = "address"
  /\ request' = [request EXCEPT !.reuse = EntryOf(meta, request.tag).reuse,
                                !.pc = IF request.node.kind = "reality" THEN "key" ELSE "link"]
  /\ UNCHANGED <<files, rows, jobs, cmds, faults, history>>

ReadKey ==
  /\ request # Idle /\ request.pc = "key"
  /\ request' = [request EXCEPT !.key = EntryOf(meta, request.tag).key, !.pc = "link"]
  /\ UNCHANGED <<files, rows, jobs, cmds, faults, history>>

Reply ==
  /\ request # Idle /\ request.pc = "link" /\ request' = Idle
  /\ UNCHANGED <<files, rows, jobs, cmds, faults, history>>

Subscription == Ask \/ ReadAddress \/ ReadKey \/ Reply

Step(j) ==
  \/ NodeCommand(j) \/ GrantCommand(j) \/ Picker(j) \/ SyncCommand(j)
  \/ AddNode(j) \/ EditNode(j) \/ EditInbound(j) \/ DeleteNode(j) \/ Refused(j)
  \/ LoadMeta(j) \/ CutMeta(j) \/ PutMeta(j) \/ MetaFails(j) \/ RemoveCerts(j) \/ Reload(j)
  \/ CleanList(j) \/ CleanRow(j)
  \/ ReadRow(j) \/ WriteRow(j) \/ Sync(j) \/ SyncFails(j) \/ Kill(j)

Next == Subscription \/ \E j \in Jobs : Step(j)

Spec == Init /\ [][Next]_vars

-----------------------------------------------------------------------------
(* Type invariant. *)
TypeOK ==
  /\ IsPartial(inbounds, Tags, Inbound) /\ IsPartial(meta, Tags, Entry)
  /\ certs \subseteq Tags
  /\ rows \in [Users -> Row]
  /\ jobs = [j \in Jobs |-> jobs[j]] /\ \A j \in Jobs : jobs[j] # Idle => IsJob(jobs[j])
  /\ request # Idle => IsRequest(request)
  /\ cmds \in 0..MaxCmds /\ faults \in 0..MaxFaults
  /\ disturbed \in BOOLEAN /\ dropped \subseteq Users /\ overtaken \subseteq Users

(* sync_users and the commands that end with it: an inbound lists somebody   *)
(* who may not use it only until the sync that is under way, unless one has  *)
(* failed since or a clean-up has overtaken a new grant.                     *)
GrantsCarried ==
  \A t \in DOMAIN inbounds : \A u \in inbounds[t].listed :
    CanUse(u, t) \/ u \in dropped \cup overtaken \/ \E j \in Jobs : u \in Owes(j)

(* The two files agree, for what links need of them. *)
Matches ==
  /\ DOMAIN meta = DOMAIN inbounds
  /\ \A t \in DOMAIN inbounds :
       /\ meta[t].reuse = inbounds[t].reuse
       /\ inbounds[t].kind = "reality" => meta[t].key = inbounds[t].key

(* mutate_config_locked, apply_meta_ops: node commands leave the files in    *)
(* agreement, unless two of them have shared their time after the lock or    *)
(* one has ended in it.                                                      *)
MetaMatches == ~disturbed /\ Trailing = {} => Matches

(* config.json as it is passes the check, so that the next command and the   *)
(* next sync can save theirs, whatever removes certificates; with the same   *)
(* exception.                                                                *)
StaysAcceptable == ~disturbed => Accepts(inbounds, certs)

(* handle_sub: config.json and, twice, the file of entries are read at       *)
(* different moments, while any node may be added, edited or deleted.  A link*)
(* still fits the node it was made for, with these exceptions only.  It has  *)
(* no key or no 443 when a command on any node cut the file meanwhile, or its*)
(* own was just being added.  It has the port of an edit under way.  It has  *)
(* what belongs to another node when its own was deleted and one was added   *)
(* under its tag meanwhile.  Node commands that have shared their time after *)
(* the lock are excused, as in MetaMatches.                                  *)
LinkFits ==
  request # Idle /\ request.pc = "link" /\ ~disturbed =>
    LET bare == request.since \cap {"cut", "add"} # {}
        another == {"del", "add"} \subseteq request.since IN
    /\ \/ request.reuse = request.node.reuse
       \/ request.reuse = FALSE /\ bare
       \/ "edit" \in request.since \/ another
    /\ request.node.kind = "reality" =>
         request.key = request.node.key \/ (request.key = 0 /\ bare) \/ another
=============================================================================
