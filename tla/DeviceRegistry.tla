-------------------------- MODULE DeviceRegistry --------------------------
(***************************************************************************)
(* The device registry (server/device_registry.py): a map from device id   *)
(* to pinned keys, in the memory of each process that opened it and in one *)
(* JSON file.  Two kinds of process open it: the management server, which  *)
(* loads it once and serves POST /api/devices/register, and the admin's    *)
(* reset CLI (server/reset_registry.py), which loads, removes and exits.   *)
(*                                                                         *)
(* The registry's lock is per process, so one operation at a time runs in  *)
(* each, while the processes interleave freely: at every system call of    *)
(* _save, and both with the same temporary file.                           *)
(***************************************************************************)
EXTENDS Naturals

CONSTANTS
  Devices,          \* device ids
  Keys,             \* pinned identities: (ak_pub_pem, ta_pub_b64) pairs
  None,             \* not enrolled
  Torn,             \* a file opened for writing and not completely written
  Absent            \* no such file

Records == [Devices -> Keys \cup {None}]

ASSUME RegistryAssumption ==
  /\ None \notin Keys
  /\ Torn # Absent /\ {Torn, Absent} \cap Records = {}

Procs == {"server", "cli"}
NoJob == [op |-> "none"]
Jobs == [op : {"register"}, d : Devices, k : Keys]
          \cup [op : {"remove"}, ds : SUBSET Devices]

\* Where a process is in _save.  While it holds the temporary file open for
\* writing, that file may be moved over the registry by the other process
\* ("dumpFile"), and then replaced there ("dumpGone").
Steps == {"open", "dump", "dumpFile", "dumpGone", "replace", "chmod"}

VARIABLES
  file,     \* CONFIG.device_registry_path; an absent one loads as an empty one
  tmp,      \* the same path with .tmp
  pc,       \* [Procs -> "off", "idle" or the step of _save it is at]
  records,  \* [Procs -> self._records]
  job,      \* [Procs -> the operation under way]
  answer,   \* the last answer of the register endpoint
  acked,    \* [Devices -> key the server acknowledged, None once unenrolled]
  removed,  \* devices the CLI reported removed, not enrolled again since
  fresh,    \* processes that loaded the file as the last save left it
  overlap,  \* a save began while the other process was in the middle of one
  calm      \* none did, none has raised, and no process that is not fresh has
            \* removed a device, added one or confirmed one as registered

vars == <<file, tmp, pc, records, job, answer, acked, removed, fresh, overlap,
          calm>>

\* A process has an operation exactly while it is in _save.
TypeOK ==
  /\ file \in Records \cup {Torn}
  /\ tmp \in Records \cup {Torn, Absent}
  /\ pc \in [Procs -> {"off", "idle"} \cup Steps]
  /\ records \in [Procs -> Records]
  /\ job \in [Procs -> Jobs \cup {NoJob}]
  /\ answer \in {"none", "ok", "mismatch", "error"}
  /\ acked \in Records
  /\ removed \in SUBSET Devices
  /\ fresh \in SUBSET Procs
  /\ overlap \in BOOLEAN
  /\ calm \in BOOLEAN
  /\ \A p \in Procs : pc[p] \in Steps <=> job[p] # NoJob

Empty == [d \in Devices |-> None]

Init ==
  /\ file = Empty /\ tmp = Absent
  /\ pc = [p \in Procs |-> "off"]
  /\ records = [p \in Procs |-> Empty]
  /\ job = [p \in Procs |-> NoJob]
  /\ answer = "none" /\ acked = Empty /\ removed = {}
  /\ fresh = {} /\ overlap = FALSE /\ calm = TRUE

-----------------------------------------------------------------------------
(* Mutated forms of the helpers below; the specification does not use them *)

Truncate_inPlace == file' = Torn /\ UNCHANGED tmp    \* no temporary file
Mismatch_never(existing, k) == FALSE                 \* re-registration overwrites
Loadable_any == TRUE                                 \* a parser that forgives
Without_none(rs, ds) == rs                           \* saved before the deletion

-----------------------------------------------------------------------------
(* Processes *)

\* __init__ and _load.  A torn file is not JSON: json.load raises and the
\* process does not come up.
Loadable == file # Torn

Load(p) ==
  /\ pc[p] = "off"
  /\ Loadable
  /\ records' = [records EXCEPT ![p] = file]
  /\ pc' = [pc EXCEPT ![p] = "idle"]
  /\ fresh' = fresh \cup {p}
  /\ UNCHANGED <<file, tmp, job, answer, acked, removed, overlap, calm>>

\* The CLI exits, the server is stopped, or either is killed half way.
Kill(p) ==
  /\ pc[p] # "off"
  /\ pc' = [pc EXCEPT ![p] = "off"]
  /\ records' = [records EXCEPT ![p] = Empty]
  /\ job' = [job EXCEPT ![p] = NoJob]
  /\ fresh' = fresh \ {p}
  /\ UNCHANGED <<file, tmp, answer, acked, removed, overlap, calm>>

OtherSaves(p) == \E q \in Procs \ {p} : pc[q] \in Steps

Begin(p, j, new) ==
  /\ pc' = [pc EXCEPT ![p] = "open"]
  /\ job' = [job EXCEPT ![p] = j]
  /\ records' = [records EXCEPT ![p] = new]
  /\ overlap' = (overlap \/ OtherSaves(p))
  /\ calm' = (calm /\ ~OtherSaves(p) /\ p \in fresh)

Finish(p) ==
  /\ pc' = [pc EXCEPT ![p] = "idle"]
  /\ job' = [job EXCEPT ![p] = NoJob]

-----------------------------------------------------------------------------
(* Operations *)

\* Every pinned field is compared before the idempotent return.
Mismatch(existing, k) == existing # k

\* POST /api/devices/register with a well-formed record.
register(d, k) ==
  LET existing == records["server"][d] IN
  /\ pc["server"] = "idle"
  /\ UNCHANGED <<file, tmp, fresh>>
  /\ \/ /\ existing # None /\ Mismatch(existing, k)
        /\ answer' = "mismatch"
        /\ UNCHANGED <<pc, job, records, acked, removed, overlap, calm>>
     \/ /\ existing = k
        /\ answer' = "ok"
        /\ acked' = [acked EXCEPT ![d] = k]
        /\ removed' = removed \ {d}
        /\ calm' = (calm /\ "server" \in fresh)
        /\ UNCHANGED <<pc, job, records, overlap>>
     \/ /\ existing # k /\ (existing = None \/ ~Mismatch(existing, k))
        /\ Begin("server", [op |-> "register", d |-> d, k |-> k],
                 [records["server"] EXCEPT ![d] = k])
        /\ removed' = removed \ {d}
        /\ UNCHANGED <<answer, acked>>

Without(rs, ds) == [d \in Devices |-> IF d \in ds THEN None ELSE rs[d]]

\* The body remove and clear share: drop ds from the dictionary, and save.
Unenroll(ds) ==
  /\ pc["cli"] = "idle"
  /\ Begin("cli", [op |-> "remove", ds |-> ds], Without(records["cli"], ds))
  /\ UNCHANGED <<file, tmp, answer, acked, removed, fresh>>

remove(d) == records["cli"][d] # None /\ Unenroll({d})
clear == Unenroll({d \in Devices : records["cli"][d] # None})

-----------------------------------------------------------------------------
(* _save *)

\* open(tmp, "w")
Truncate == tmp' = Torn /\ UNCHANGED file

OpenTmp(p) ==
  /\ pc[p] = "open"
  /\ Truncate
  /\ pc' = [pc EXCEPT ![p] = "dump"]
  /\ UNCHANGED <<records, job, answer, acked, removed, fresh, overlap, calm>>

\* What a file that held old holds after a dump of new from its first byte:
\* the end of a longer text written there meanwhile stays.
Dumped(old, new) == IF old \in {Torn, new} THEN {new} ELSE {new, Torn}

\* json.dump and close, to whatever the opened file is called by now
DumpTmp(p) ==
  /\ \/ pc[p] = "dump" /\ tmp' \in Dumped(tmp, records[p]) /\ UNCHANGED file
     \/ pc[p] = "dumpFile" /\ file' \in Dumped(file, records[p]) /\ UNCHANGED tmp
     \/ pc[p] = "dumpGone" /\ UNCHANGED <<file, tmp>>
  /\ pc' = [pc EXCEPT ![p] = "replace"]
  /\ UNCHANGED <<records, job, answer, acked, removed, fresh, overlap, calm>>

\* os.replace: from here on a removal counts, and whatever another process
\* has in memory is out of date.
ReplaceFile(p) ==
  /\ pc[p] = "replace" /\ tmp # Absent
  /\ file' = tmp /\ tmp' = Absent
  /\ pc' = [q \in Procs |->
              CASE q = p               -> "chmod"
                [] pc[q] = "dump"      -> "dumpFile"
                [] pc[q] = "dumpFile"  -> "dumpGone"
                [] OTHER               -> pc[q]]
  /\ fresh' = fresh \cap {p}
  /\ acked' = [d \in Devices |->
                 IF job[p].op = "remove" /\ d \in job[p].ds THEN None ELSE acked[d]]
  /\ UNCHANGED <<records, job, answer, removed, overlap, calm>>

\* Whatever _save raises reaches the client as an error, and the change
\* stays in memory: os.replace finds no file if the other process moved it,
\* and any system call may fail.
SaveRaises(p) ==
  /\ pc[p] \in Steps
  /\ Finish(p)
  /\ answer' = IF p = "server" THEN "error" ELSE answer
  /\ calm' = FALSE
  /\ UNCHANGED <<file, tmp, records, acked, removed, fresh, overlap>>

\* os.chmod; the operation returns to its caller.
Return(p) ==
  /\ pc[p] = "chmod"
  /\ Finish(p)
  /\ \/ /\ job[p].op = "register"
        /\ answer' = "ok"
        /\ acked' = [acked EXCEPT ![job[p].d] = job[p].k]
        /\ UNCHANGED removed
     \/ /\ job[p].op = "remove"
        /\ removed' = removed \cup job[p].ds
        /\ UNCHANGED <<answer, acked>>
  /\ UNCHANGED <<file, tmp, records, fresh, overlap, calm>>

Saving(p) == OpenTmp(p) \/ DumpTmp(p) \/ ReplaceFile(p) \/ Return(p) \/ SaveRaises(p)

Next ==
  \/ \E p \in Procs : Load(p) \/ Kill(p) \/ Saving(p)
  \/ \E d \in Devices, k \in Keys : register(d, k)
  \/ \E d \in Devices : remove(d)
  \/ clear

Spec == Init /\ [][Next]_vars

-----------------------------------------------------------------------------
(* Properties *)

\* As long as saves succeed, one at a time, and a server that the CLI has
\* overtaken is restarted before it registers again, what the register endpoint
\* acknowledged is in the file, complete, at every moment: a kill or restart at
\* any step of a later save loses no enrollment ("Persistent {device_id ->
\* DeviceRecord} store").
AckedIsDurable ==
  calm => \A d \in Devices : acked[d] # None => file # Torn /\ file[d] = acked[d]

\* Over such saves, kills and restarts, an acknowledged identity is never
\* replaced by another one; it can only be removed by the admin (register:
\* "instead of silently replacing the trusted identity").
IdentityIsPinned ==
  [][calm /\ calm' =>
       \A d \in Devices : acked[d] # None => acked'[d] \in {acked[d], None}]_vars

\* Over such saves, a device the CLI reported removed, with the server up or
\* down, stays out of the file until it is registered again, and a server
\* (re)started since does not know it, so that it can enroll its new keys
\* (reset_registry.py: "the running server (if any) loaded this file once at
\* startup and never reloads it - restart CC_Server for this to take effect").
RemovalTakesEffect ==
  calm => \A d \in removed :
            /\ file # Torn => file[d] = None
            /\ "server" \in fresh => records["server"][d] = None

\* Kills, failures and stale copies may cost entries, but the registry file
\* always loads, unless two processes were in _save at once and wrote through
\* the same temporary file ("written atomically (write-to-temp +
\* os.replace)").
FileLoads == file = Torn => overlap
=============================================================================
