----------------------- MODULE DeviceRegistry_proofs -----------------------
(***************************************************************************)
(* Proofs about the device registry, for any set of devices and of keys.   *)
(*                                                                         *)
(* What the file says about an acknowledged enrollment is not inductive:   *)
(* Whole relates the temporary file and the file at each step of a save    *)
(* that no other save overlaps, and Calm adds what the dictionaries of the *)
(* processes that are up to date have to do with the file, with the        *)
(* operation under way and with what was answered.                         *)
(***************************************************************************)
EXTENDS DeviceRegistry, TLAPS

RegisterJobs == [op : {"register"}, d : Devices, k : Keys]
RemoveJobs == [op : {"remove"}, ds : SUBSET Devices]

\* Only the server registers, only the CLI removes.
JobKinds ==
  /\ job["server"] \in RegisterJobs \cup {NoJob}
  /\ job["cli"] \in RemoveJobs \cup {NoJob}

OneSaves == \A p, q \in Procs : pc[p] \in Steps /\ pc[q] \in Steps => p = q

\* The two files, at each step of _save.
Files(p) ==
  /\ pc[p] \notin {"dumpFile", "dumpGone"}
  /\ pc[p] = "dump" => tmp = Torn
  /\ pc[p] = "replace" => tmp = records[p]

Whole == file # Torn /\ OneSaves /\ \A p \in Procs : Files(p)

Unsaved == {"open", "dump", "replace"}

\* A process that is up to date has the file in memory, or is ahead of it by
\* the operation under way; only such a process saves.
Current ==
  /\ \A p \in fresh : pc[p] # "off"
  /\ \A p \in Procs : pc[p] \in Steps => p \in fresh
  /\ \A p \in fresh : pc[p] \in {"idle", "chmod"} => file = records[p]

\* The dictionary is ahead of the file by the registration under way.
Registering ==
  LET j == job["server"] IN
  /\ pc["server"] \in Unsaved =>
       /\ file[j.d] = None
       /\ records["server"] = [file EXCEPT ![j.d] = j.k]
  /\ pc["server"] = "chmod" => records["server"][j.d] = j.k
  /\ pc["server"] \in Steps => j.d \notin removed

\* The dictionary is ahead of the file by the removal under way.
Removing ==
  LET j == job["cli"] IN
  /\ pc["cli"] \in Unsaved => records["cli"] = Without(file, j.ds)
  /\ pc["cli"] = "chmod" => \A d \in j.ds : records["cli"][d] = None

Answered ==
  /\ \A d \in Devices : acked[d] # None => file[d] = acked[d]
  /\ \A d \in removed : file[d] = None

Calm == ~overlap /\ Current /\ Registering /\ Removing /\ Answered

Inv == /\ TypeOK /\ JobKinds
       /\ ~overlap => Whole
       /\ calm => Calm

-----------------------------------------------------------------------------
(* Types *)

\* An operation under way is told from none by its op field.
LEMMA JobFacts ==
  /\ NoJob \notin Jobs
  /\ RegisterJobs \subseteq Jobs /\ RemoveJobs \subseteq Jobs
  /\ \A j \in RegisterJobs : j.op = "register" /\ j.d \in Devices /\ j.k \in Keys
  /\ \A j \in RemoveJobs : j.op = "remove" /\ j.ds \subseteq Devices
  BY DEF NoJob, Jobs, RegisterJobs, RemoveJobs

\* A file that can be loaded holds a record map.
LEMMA FileType ==
  ASSUME TypeOK, file # Torn
  PROVE  file \in Records
  BY DEF TypeOK

\* Finish returns a process to its idle loop.
LEMMA FinishType ==
  ASSUME TypeOK, JobKinds, NEW p \in Procs, Finish(p)
  PROVE  /\ pc' \in [Procs -> {"off", "idle"} \cup Steps]
         /\ job' \in [Procs -> Jobs \cup {NoJob}]
         /\ \A q \in Procs : pc'[q] \in Steps <=> job'[q] # NoJob
         /\ JobKinds'
  BY DEF Finish, TypeOK, JobKinds, Procs, Steps

\* An operation begins with a dictionary of the right shape.
LEMMA BeginType ==
  ASSUME TypeOK, NEW p \in Procs, NEW j \in Jobs, NEW new \in Records,
         Begin(p, j, new)
  PROVE  /\ overlap' \in BOOLEAN /\ calm' \in BOOLEAN
         /\ pc' \in [Procs -> {"off", "idle"} \cup Steps]
         /\ records' \in [Procs -> Records]
         /\ job' \in [Procs -> Jobs \cup {NoJob}]
         /\ \A q \in Procs : pc'[q] \in Steps <=> job'[q] # NoJob
<1>1. overlap' \in BOOLEAN
  BY Zenon DEF Begin
<1>2. calm' \in BOOLEAN
  BY Zenon DEF Begin
<1> QED
  BY <1>1, <1>2, JobFacts DEF Begin, TypeOK, Steps

\* Records without those of some devices are records.
LEMMA WithoutType ==
  ASSUME NEW rs \in Records, NEW ds
  PROVE  Without(rs, ds) \in Records
  BY DEF Records, Without

\* Every step of a process keeps the types, and its operation is one of its
\* own kind.
LEMMA TypeStep == TypeOK /\ JobKinds /\ [Next]_vars => TypeOK' /\ JobKinds'
<1> SUFFICES ASSUME TypeOK, JobKinds, [Next]_vars PROVE TypeOK' /\ JobKinds'
  OBVIOUS
<1>1. ASSUME NEW p \in Procs, Load(p) PROVE TypeOK' /\ JobKinds'
  <2>1. records' \in [Procs -> Records]
    BY <1>1, FileType DEF Load, Loadable, TypeOK
  <2>2. pc' \in [Procs -> {"off", "idle"} \cup Steps]
    BY <1>1 DEF Load, TypeOK
  <2>3. \A q \in Procs : pc'[q] \in Steps <=> job'[q] # NoJob
    BY <1>1 DEF Load, TypeOK, Steps
  <2> QED
    BY <1>1, <2>1, <2>2, <2>3 DEF Load, TypeOK, JobKinds
<1>2. ASSUME NEW p \in Procs, Kill(p) PROVE TypeOK' /\ JobKinds'
  <2>1. Empty \in Records
    BY DEF Empty, Records
  <2>2. \A q \in Procs : pc'[q] \in Steps <=> job'[q] # NoJob
    BY <1>2 DEF Kill, TypeOK, Steps
  <2>3. JobKinds'
    BY <1>2 DEF Kill, TypeOK, JobKinds, Procs
  <2> QED
    BY <1>2, <2>1, <2>2, <2>3 DEF Kill, TypeOK
<1>3. ASSUME NEW d \in Devices, NEW k \in Keys, register(d, k)
      PROVE  TypeOK' /\ JobKinds'
  <2> DEFINE j == [op |-> "register", d |-> d, k |-> k]
             new == [records["server"] EXCEPT ![d] = k]
  <2>1. records["server"] \in Records
    BY DEF TypeOK, Procs
  <2>2. new \in Records /\ acked \in Records /\ [acked EXCEPT ![d] = k] \in Records
    BY <2>1 DEF Records, TypeOK
  <2>3. j \in RegisterJobs /\ j \in Jobs
    BY DEF RegisterJobs, Jobs
  <2>4. CASE UNCHANGED <<pc, job, records>>
    <3>1. calm' \in BOOLEAN /\ overlap' \in BOOLEAN
      BY <1>3, <2>4, Zenon DEF register, TypeOK, Begin
    <3> QED
      BY <1>3, <2>2, <2>4, <3>1 DEF register, TypeOK, JobKinds
  <2>5. CASE Begin("server", j, new) /\ UNCHANGED <<answer, acked>>
    <3>1. JobKinds'
      BY <2>3, <2>5 DEF Begin, JobKinds, TypeOK, Procs
    <3> QED
      BY <1>3, <2>2, <2>3, <2>5, <3>1, BeginType DEF register, TypeOK, Procs
  <2> QED
    BY <1>3, <2>4, <2>5 DEF register
<1>4. ASSUME NEW ds \in SUBSET Devices, Unenroll(ds) PROVE TypeOK' /\ JobKinds'
  <2> DEFINE j == [op |-> "remove", ds |-> ds]
  <2>1. j \in RemoveJobs /\ j \in Jobs
    BY DEF RemoveJobs, Jobs
  <2>2. Without(records["cli"], ds) \in Records
    BY WithoutType DEF TypeOK, Procs
  <2>4. JobKinds'
    BY <1>4, <2>1 DEF Unenroll, Begin, JobKinds, TypeOK, Procs
  <2> QED
    BY <1>4, <2>1, <2>2, <2>4, BeginType DEF Unenroll, TypeOK, Procs
<1>5. ASSUME NEW p \in Procs, OpenTmp(p) PROVE TypeOK' /\ JobKinds'
  BY <1>5 DEF OpenTmp, Truncate, TypeOK, JobKinds, Steps
<1>6. ASSUME NEW p \in Procs, DumpTmp(p) PROVE TypeOK' /\ JobKinds'
  <2>1. records[p] \in Records
    BY DEF TypeOK
  <2>2. /\ tmp' \in Records \cup {Torn, Absent} /\ file' \in Records \cup {Torn}
    BY <1>6, <2>1 DEF DumpTmp, Dumped, TypeOK
  <2>3. /\ pc' \in [Procs -> {"off", "idle"} \cup Steps]
        /\ \A q \in Procs : pc'[q] \in Steps <=> job'[q] # NoJob
    BY <1>6 DEF DumpTmp, TypeOK, Steps
  <2> QED
    BY <1>6, <2>2, <2>3 DEF DumpTmp, TypeOK, JobKinds
<1>7. ASSUME NEW p \in Procs, ReplaceFile(p) PROVE TypeOK' /\ JobKinds'
  <2>1. /\ pc' \in [Procs -> {"off", "idle"} \cup Steps]
        /\ \A q \in Procs : pc'[q] \in Steps <=> pc[q] \in Steps
    BY <1>7 DEF ReplaceFile, TypeOK, Steps
  <2>2. acked' \in Records /\ fresh' \in SUBSET Procs
    BY <1>7 DEF ReplaceFile, TypeOK, Records
  <2> QED
    BY <1>7, <2>1, <2>2 DEF ReplaceFile, TypeOK, JobKinds
<1>8. ASSUME NEW p \in Procs, Return(p) PROVE TypeOK' /\ JobKinds'
  <2>1. job[p] \in Jobs
    BY <1>8 DEF Return, TypeOK, Steps
  <2>2. acked' \in Records
    <3>1. job[p].op = "register" => job[p].d \in Devices /\ job[p].k \in Keys
      BY <2>1 DEF Jobs
    <3> QED
      BY <1>8, <3>1 DEF Return, TypeOK, Records
  <2>3. removed' \in SUBSET Devices
    <3>1. job[p].op = "remove" => job[p].ds \subseteq Devices
      BY <2>1 DEF Jobs
    <3> QED
      BY <1>8, <3>1 DEF Return, TypeOK
  <2> QED
    BY <1>8, <2>2, <2>3, FinishType DEF Return, TypeOK
<1>9. ASSUME NEW p \in Procs, SaveRaises(p) PROVE TypeOK' /\ JobKinds'
  BY <1>9, FinishType DEF SaveRaises, TypeOK
<1>10. CASE UNCHANGED vars
  BY <1>10 DEF vars, TypeOK, JobKinds
<1> QED
  BY <1>1, <1>2, <1>3, <1>4, <1>5, <1>6, <1>7, <1>8, <1>9, <1>10
  DEF Next, Saving, remove, clear

-----------------------------------------------------------------------------
(* The file is whole *)

\* Once calm is lost it does not come back, and an overlap is not forgotten.
LEMMA HistoryStep ==
  ASSUME TypeOK, [Next]_vars
  PROVE  /\ calm' => calm
         /\ overlap => overlap'
<1> DEFINE Kept == /\ calm' => calm
                   /\ overlap => overlap'
<1>1. ASSUME NEW p \in Procs, Load(p) \/ Kill(p) PROVE Kept
  <2>1. calm' = calm /\ overlap' = overlap
    BY <1>1 DEF Load, Kill
  <2> QED
    BY <2>1, Zenon
<1>2. ASSUME NEW p \in Procs, NEW j, NEW new, Begin(p, j, new) PROVE Kept
  BY <1>2, Zenon DEF Begin
<1>3. ASSUME NEW d \in Devices, NEW k \in Keys, register(d, k) PROVE Kept
  <2>1. CASE UNCHANGED overlap /\ calm' = (calm /\ "server" \in fresh)
    BY <2>1, Zenon
  <2>2. CASE UNCHANGED <<overlap, calm>>
    BY <2>2, Zenon
  <2> QED
    BY <1>2, <1>3, <2>1, <2>2 DEF register, Procs
<1>4. ASSUME NEW ds, Unenroll(ds) PROVE Kept
  BY <1>2, <1>4 DEF Unenroll, Procs
<1>5. ASSUME NEW p \in Procs, Saving(p) PROVE Kept
  <2>1. CASE SaveRaises(p)
    BY <2>1, Zenon DEF SaveRaises
  <2>2. CASE ~SaveRaises(p)
    <3>1. calm' = calm /\ overlap' = overlap
      BY <1>5, <2>2 DEF Saving, OpenTmp, DumpTmp, ReplaceFile, Return
    <3> QED
      BY <3>1, Zenon
  <2> QED
    BY <2>1, <2>2
<1>6. CASE UNCHANGED vars
  BY <1>6, Zenon DEF vars
<1> QED
  BY <1>1, <1>3, <1>4, <1>5, <1>6, Zenon DEF Next, remove, clear

\* Saves that do not overlap leave a complete temporary file to be moved over
\* the registry, wherever earlier ones were cut off.
LEMMA WholeStep ==
  ASSUME TypeOK, ~overlap => Whole, [Next]_vars, ~overlap'
  PROVE  Whole'
<1>0. /\ ~overlap /\ Whole
      /\ pc \in [Procs -> {"off", "idle"} \cup Steps]
      /\ records \in [Procs -> Records]
  BY HistoryStep DEF TypeOK
<1> USE <1>0
<1>1. ASSUME NEW p \in Procs, Load(p) \/ Kill(p) PROVE Whole'
  <2>1. \A q \in Procs : /\ pc'[q] = pc[q] \/ pc'[q] \in {"off", "idle"}
                         /\ pc[q] \in Steps => \/ records'[q] = records[q]
                                               \/ pc'[q] = "off"
    BY <1>1 DEF Load, Kill, Steps
  <2>2. UNCHANGED <<file, tmp>>
    BY <1>1 DEF Load, Kill
  <2> QED
    BY <2>1, <2>2 DEF Whole, OneSaves, Files, Steps
<1>2. ASSUME NEW p \in Procs, NEW j, NEW new, Begin(p, j, new),
             UNCHANGED <<file, tmp>>
      PROVE  Whole'
  <2>1. \A q \in Procs \ {p} : pc[q] \notin Steps
    BY <1>2 DEF Begin, OtherSaves
  <2>2. \A q \in Procs : pc'[q] = IF q = p THEN "open" ELSE pc[q]
    BY <1>2 DEF Begin
  <2> QED
    BY <1>2, <2>1, <2>2 DEF Whole, OneSaves, Files, Steps
<1>3. ASSUME NEW p \in Procs, OpenTmp(p) PROVE Whole'
  <2>1. \A q \in Procs : q # p => pc[q] \notin Steps
    BY <1>3 DEF OpenTmp, Whole, OneSaves, Steps
  <2> QED
    BY <1>3, <2>1 DEF OpenTmp, Truncate, Whole, OneSaves, Files, Steps
<1>4. ASSUME NEW p \in Procs, DumpTmp(p) PROVE Whole'
  <2>1. /\ pc[p] = "dump" /\ tmp = Torn
        /\ \A q \in Procs : q # p => pc[q] \notin Steps
    BY <1>4 DEF DumpTmp, Whole, OneSaves, Files, Steps
  <2> QED
    BY <1>4, <2>1 DEF DumpTmp, Dumped, Whole, OneSaves, Files, Steps
<1>5. ASSUME NEW p \in Procs, ReplaceFile(p) PROVE Whole'
  <2>1. /\ pc[p] = "replace" /\ file' = records[p] /\ records[p] \in Records
        /\ records' = records
        /\ \A q \in Procs : q # p => pc[q] \notin Steps
    BY <1>5 DEF ReplaceFile, Whole, OneSaves, Files, Steps
  <2>2. \A q \in Procs : pc'[q] = IF q = p THEN "chmod" ELSE pc[q]
    BY <1>5, <2>1 DEF ReplaceFile, Steps
  <2>3. file' # Torn
    BY <2>1, RegistryAssumption
  <2> QED
    BY <2>1, <2>2, <2>3 DEF Whole, OneSaves, Files, Steps
<1>6. ASSUME NEW p \in Procs, Return(p) \/ SaveRaises(p) PROVE Whole'
  <2>1. /\ \A q \in Procs : pc'[q] = IF q = p THEN "idle" ELSE pc[q]
        /\ UNCHANGED <<file, tmp, records>>
    BY <1>6 DEF Return, SaveRaises, Finish
  <2> QED
    BY <2>1 DEF Whole, OneSaves, Files, Steps
<1>7. CASE UNCHANGED <<file, tmp, pc, records>>
  BY <1>7 DEF Whole, OneSaves, Files
<1> QED
  BY <1>1, <1>2, <1>3, <1>4, <1>5, <1>6, <1>7
  DEF Next, Saving, register, remove, clear, Unenroll, Procs, vars

-----------------------------------------------------------------------------
(* The copies agree *)

\* What the idle or saving process knows, by process.
LEMMA RunningJob ==
  ASSUME TypeOK, JobKinds
  PROVE  /\ pc["server"] \in Steps => job["server"] \in RegisterJobs
         /\ pc["cli"] \in Steps => job["cli"] \in RemoveJobs
         /\ pc["server"] \in Steps =>
              job["server"].d \in Devices /\ job["server"].k \in Keys
         /\ pc["cli"] \in Steps => job["cli"].ds \subseteq Devices
<1>1. /\ pc["server"] \in Steps => job["server"] \in RegisterJobs
      /\ pc["cli"] \in Steps => job["cli"] \in RemoveJobs
  BY DEF TypeOK, JobKinds, Procs
<1> QED
  BY <1>1, JobFacts

\* Each step of a save, and each kill between two of them, keeps the copies
\* in agreement with the operation under way.
LEMMA CalmStep ==
  ASSUME TypeOK, JobKinds, ~overlap => Whole, calm => Calm, [Next]_vars, calm'
  PROVE  Calm'
<1>0. /\ calm /\ Calm /\ Whole /\ ~overlap /\ file \in Records
      /\ "server" \in Procs /\ "cli" \in Procs
      /\ \A p \in Procs : p = "server" \/ p = "cli"
  BY HistoryStep, FileType DEF Calm, Whole, Procs
<1>t. /\ pc \in [Procs -> {"off", "idle"} \cup Steps]
      /\ records \in [Procs -> Records]
      /\ job \in [Procs -> Jobs \cup {NoJob}]
      /\ acked \in Records /\ removed \subseteq Devices
      /\ tmp \in Records \cup {Torn, Absent} /\ fresh \subseteq Procs
  BY DEF TypeOK
<1> USE <1>0, <1>t
<1>1. ASSUME NEW p \in Procs, Load(p) PROVE Calm'
  <2>1. /\ \A q \in Procs : pc'[q] = IF q = p THEN "idle" ELSE pc[q]
        /\ \A q \in Procs : records'[q] = IF q = p THEN file ELSE records[q]
        /\ pc[p] = "off" /\ fresh' = fresh \cup {p}
        /\ UNCHANGED <<file, tmp, job, acked, removed, overlap>>
    BY <1>1 DEF Load
  <2> QED
    BY <2>1 DEF Calm, Current, Registering, Removing, Answered, Unsaved, Steps
<1>2. ASSUME NEW p \in Procs, Kill(p) PROVE Calm'
  <2>1. /\ \A q \in Procs : pc'[q] = IF q = p THEN "off" ELSE pc[q]
        /\ \A q \in Procs : q # p => records'[q] = records[q] /\ job'[q] = job[q]
        /\ fresh' = fresh \ {p}
        /\ UNCHANGED <<file, tmp, acked, removed, overlap>>
    BY <1>2 DEF Kill
  <2> QED
    BY <2>1 DEF Calm, Current, Registering, Removing, Answered, Unsaved, Steps
<1>3. ASSUME NEW d \in Devices, NEW k \in Keys, register(d, k) PROVE Calm'
  <2>1. pc["server"] = "idle" /\ UNCHANGED <<file, tmp, fresh>>
    BY <1>3 DEF register
  <2>2. CASE UNCHANGED <<pc, job, records, acked, removed, overlap>>
    BY <2>1, <2>2 DEF Calm, Current, Registering, Removing, Answered
  <2>3. CASE /\ records["server"][d] = k /\ "server" \in fresh
             /\ acked' = [acked EXCEPT ![d] = k]
             /\ removed' = removed \ {d}
             /\ UNCHANGED <<pc, job, records, overlap>>
    <3>1. file[d] = k
      BY <2>1, <2>3 DEF Calm, Current
    <3>2. \A e \in Devices : acked'[e] # None => file[e] = acked'[e]
      BY <2>3, <3>1 DEF Calm, Answered, Records
    <3> QED
      BY <2>1, <2>3, <3>2
      DEF Calm, Current, Registering, Removing, Answered, Unsaved, Steps
  <2>4. CASE /\ records["server"][d] = None
             /\ Begin("server", [op |-> "register", d |-> d, k |-> k],
                      [records["server"] EXCEPT ![d] = k])
             /\ removed' = removed \ {d}
             /\ UNCHANGED acked
    <3>1. /\ "server" \in fresh /\ pc["cli"] \notin Steps /\ ~overlap'
      BY <2>4 DEF Begin, OtherSaves
    <3>2. file = records["server"]
      BY <2>1, <3>1 DEF Calm, Current
    <3>3. /\ pc'["server"] = "open" /\ pc'["cli"] = pc["cli"]
          /\ job'["server"].d = d /\ job'["server"].k = k
          /\ records'["server"] = [file EXCEPT ![d] = k]
          /\ records'["cli"] = records["cli"]
      BY <2>1, <2>4, <3>2 DEF Begin
    <3> QED
      BY <2>1, <2>4, <3>1, <3>2, <3>3
      DEF Calm, Current, Registering, Removing, Answered, Unsaved, Steps
  <2> QED
    BY <1>3, <2>2, <2>3, <2>4 DEF register, Mismatch
<1>4. ASSUME NEW ds \in SUBSET Devices, Unenroll(ds) PROVE Calm'
  <2>1. /\ pc["cli"] = "idle" /\ "cli" \in fresh /\ pc["server"] \notin Steps
        /\ ~overlap'
    BY <1>4 DEF Unenroll, Begin, OtherSaves
  <2>2. /\ pc'["cli"] = "open" /\ pc'["server"] = pc["server"]
        /\ job'["cli"].ds = ds
        /\ records'["cli"] = Without(file, ds)
        /\ records'["server"] = records["server"]
        /\ UNCHANGED <<file, tmp, acked, removed, fresh>>
    BY <1>4, <2>1 DEF Unenroll, Begin, Calm, Current
  <2> QED
    BY <2>1, <2>2
    DEF Calm, Current, Registering, Removing, Answered, Unsaved, Steps
<1>5. ASSUME NEW p \in Procs, OpenTmp(p) \/ DumpTmp(p) PROVE Calm'
  <2>1. /\ pc[p] \in Unsaved /\ pc'[p] \in Unsaved
        /\ \A q \in Procs : q # p => pc'[q] = pc[q]
        /\ UNCHANGED <<file, records, job, acked, removed, fresh, overlap>>
    BY <1>5 DEF OpenTmp, Truncate, DumpTmp, Whole, Files, Unsaved
  <2> QED
    BY <2>1 DEF Calm, Current, Registering, Removing, Answered, Unsaved, Steps
<1>6. ASSUME NEW p \in Procs, ReplaceFile(p) PROVE Calm'
  <2>1. /\ pc[p] = "replace" /\ file' = records[p] /\ records[p] \in Records
        /\ p \in fresh /\ fresh' = {p}
        /\ UNCHANGED <<records, job, removed, overlap>>
    BY <1>6 DEF ReplaceFile, Whole, Files, Calm, Current, Steps
  <2>2. /\ pc'[p] = "chmod"
        /\ \A q \in Procs : q # p => pc[q] \notin Steps /\ pc'[q] = pc[q]
    <3>1. \A q \in Procs : q # p => pc[q] \notin Steps
      BY <2>1 DEF Whole, OneSaves, Steps
    <3> QED
      BY <1>6, <2>1, <3>1 DEF ReplaceFile, Steps
  <2>3. CASE p = "server"
    <3> DEFINE j == job["server"]
    <3>1. /\ j.d \in Devices /\ j.k \in Keys /\ j.op = "register"
      BY <2>1, <2>3, RunningJob, JobFacts DEF Steps
    <3>2. /\ file[j.d] = None /\ file' = [file EXCEPT ![j.d] = j.k]
          /\ j.d \notin removed
      BY <2>1, <2>3 DEF Calm, Registering, Unsaved, Steps
    <3>3. acked' = [d \in Devices |-> acked[d]]
      BY <1>6, <2>3, <3>1 DEF ReplaceFile
    <3>4. /\ \A d \in Devices : acked'[d] # None => file'[d] = acked'[d]
          /\ \A d \in removed : file'[d] = None
          /\ file'[j.d] = j.k
      BY <3>1, <3>2, <3>3 DEF Calm, Answered, Records
    <3> QED
      BY <2>1, <2>2, <2>3, <3>2, <3>4
      DEF Calm, Current, Registering, Removing, Answered, Unsaved, Steps
  <2>4. CASE p = "cli"
    <3> DEFINE ds == job["cli"].ds
    <3>1. ds \subseteq Devices /\ job["cli"].op = "remove"
      BY <2>1, <2>4, RunningJob, JobFacts DEF Steps
    <3>2. file' = Without(file, ds)
      BY <2>1, <2>4 DEF Calm, Removing, Unsaved, Steps
    <3>3. \A d \in Devices : /\ file'[d] = IF d \in ds THEN None ELSE file[d]
                             /\ acked'[d] = IF d \in ds THEN None ELSE acked[d]
      BY <1>6, <2>4, <3>1, <3>2 DEF ReplaceFile, Without
    <3> QED
      BY <2>1, <2>2, <2>4, <3>1, <3>3
      DEF Calm, Current, Registering, Removing, Answered, Unsaved, Steps
  <2> QED
    BY <2>3, <2>4
<1>7. ASSUME NEW p \in Procs, Return(p) PROVE Calm'
  <2>1. /\ pc[p] = "chmod" /\ file = records[p] /\ p \in fresh
        /\ \A q \in Procs : pc'[q] = IF q = p THEN "idle" ELSE pc[q]
        /\ \A q \in Procs : q # p => job'[q] = job[q] /\ pc[q] \notin Steps
        /\ UNCHANGED <<file, tmp, records, fresh, overlap>>
    BY <1>7 DEF Return, Finish, Calm, Current, Whole, OneSaves, Steps
  <2>2. CASE p = "server"
    <3> DEFINE j == job["server"]
    <3>1. j.d \in Devices /\ j.op = "register"
      BY <2>1, <2>2, RunningJob, JobFacts DEF Steps
    <3>2. file[j.d] = j.k /\ acked' = [acked EXCEPT ![j.d] = j.k] /\ removed' = removed
      BY <1>7, <2>1, <2>2, <3>1 DEF Return, Calm, Registering
    <3>3. \A d \in Devices : acked'[d] # None => file[d] = acked'[d]
      BY <3>1, <3>2 DEF Calm, Answered, Records
    <3>4. Answered' /\ ~overlap'
      BY <2>1, <3>2, <3>3 DEF Calm, Answered
    <3>5. Current'
      BY <2>1 DEF Calm, Current, Steps
    <3>6. /\ pc'["server"] = "idle" /\ pc'["cli"] = pc["cli"]
          /\ pc["cli"] \notin Steps
      BY <2>1, <2>2
    <3>7. Registering' /\ Removing'
      BY <3>6 DEF Registering, Removing, Unsaved, Steps
    <3> QED
      BY <3>4, <3>5, <3>7 DEF Calm
  <2>3. CASE p = "cli"
    <3> DEFINE j == job["cli"]
    <3>1. j.op = "remove"
      BY <2>1, <2>3, RunningJob, JobFacts DEF Steps
    <3>2. /\ \A d \in j.ds : file[d] = None
          /\ acked' = acked /\ removed' = removed \cup j.ds
      BY <1>7, <2>1, <2>3, <3>1 DEF Return, Calm, Removing
    <3>4. Answered' /\ ~overlap'
      BY <2>1, <3>2 DEF Calm, Answered
    <3>5. Current'
      BY <2>1 DEF Calm, Current, Steps
    <3>6. /\ pc'["cli"] = "idle" /\ pc'["server"] = pc["server"]
          /\ pc["server"] \notin Steps
      BY <2>1, <2>3
    <3>7. Registering' /\ Removing'
      BY <3>6 DEF Registering, Removing, Unsaved, Steps
    <3> QED
      BY <3>4, <3>5, <3>7 DEF Calm
  <2> QED
    BY <2>2, <2>3
<1>8. ASSUME NEW p \in Procs, SaveRaises(p) PROVE FALSE
  BY <1>8 DEF SaveRaises
<1>9. CASE UNCHANGED vars
  BY <1>9 DEF vars, Calm, Current, Registering, Removing, Answered
<1> QED
  BY <1>1, <1>2, <1>3, <1>4, <1>5, <1>6, <1>7, <1>8, <1>9
  DEF Next, Saving, remove, clear

\* The inductive invariant holds in every reachable state.
LEMMA InvHolds == Spec => []Inv
<1>1. Init => Inv
  <2> SUFFICES ASSUME Init PROVE Inv
    OBVIOUS
  <2>1. Empty \in Records
    BY DEF Empty, Records
  <2>2. TypeOK /\ JobKinds
    BY <2>1 DEF Init, TypeOK, JobKinds, Procs, Steps
  <2>3. Whole /\ Calm
    BY <2>1, RegistryAssumption
    DEF Init, Whole, OneSaves, Files, Calm, Current, Registering, Removing,
        Answered, Unsaved, Steps, Empty, Procs
  <2> QED
    BY <2>2, <2>3 DEF Inv
<1>2. Inv /\ [Next]_vars => Inv'
  BY TypeStep, WholeStep, CalmStep DEF Inv
<1> QED
  BY <1>1, <1>2, PTL DEF Spec

-----------------------------------------------------------------------------
(* Theorems *)

\* Every copy of the registry is a record map, a torn file or none, whatever
\* the two processes do to each other, and a process has an operation exactly
\* while it saves.
THEOREM TypeCorrect == Spec => []TypeOK
  BY InvHolds, PTL DEF Inv

\* The registry file loads after any kills, failures and restarts, unless two
\* saves overlapped.
THEOREM FileIsWhole == Spec => []FileLoads
<1>1. Inv => FileLoads
  BY DEF Inv, Whole, FileLoads
<1> QED
  BY <1>1, InvHolds, PTL

\* With saves that succeed one at a time, from copies that are up to date, an
\* acknowledged enrollment is in a complete file at every moment, for any kill
\* and restart and with the CLI used beside the server.
THEOREM Durable == Spec => []AckedIsDurable
<1>1. Inv => AckedIsDurable
  BY DEF Inv, Whole, Calm, Answered, AckedIsDurable
<1> QED
  BY <1>1, InvHolds, PTL

\* A device reported removed is out of the file and unknown to any server that
\* is up to date with the file, until it registers again.
THEOREM RemovalEffective == Spec => []RemovalTakesEffect
<1>1. Inv => RemovalTakesEffect
  <2> SUFFICES ASSUME Inv, calm, NEW d \in removed
               PROVE  /\ file[d] = None
                      /\ "server" \in fresh => records["server"][d] = None
    BY DEF RemovalTakesEffect
  <2>1. /\ Calm /\ Whole /\ d \in Devices /\ file \in Records
        /\ pc["server"] \in {"off", "idle"} \cup Steps
    BY FileType DEF Inv, Calm, Whole, TypeOK, Procs
  <2>2. file[d] = None
    BY <2>1 DEF Calm, Answered
  <2>3. CASE pc["server"] \in Unsaved
    <3>1. /\ job["server"].d # d
          /\ records["server"] = [file EXCEPT ![job["server"].d] = job["server"].k]
      BY <2>1, <2>3 DEF Calm, Registering, Unsaved, Steps
    <3> QED
      BY <2>1, <2>2, <3>1 DEF Records
  <2>4. CASE "server" \in fresh /\ pc["server"] \notin Unsaved
    <3>1. pc["server"] \in {"idle", "chmod"}
      BY <2>1, <2>4 DEF Calm, Current, Whole, Files, Steps, Unsaved, Procs
    <3> QED
      BY <2>1, <2>2, <2>4, <3>1 DEF Calm, Current
  <2> QED
    BY <2>2, <2>3, <2>4
<1> QED
  BY <1>1, InvHolds, PTL

\* Whatever is killed and restarted, an acknowledged identity is replaced by
\* no other: the dictionary a server registers from is the file's.
THEOREM Pinned == Spec => IdentityIsPinned
<1>1. Inv /\ [Next]_vars =>
        [calm /\ calm' =>
           \A d \in Devices : acked[d] # None => acked'[d] \in {acked[d], None}]_vars
  <2> SUFFICES ASSUME Inv, Next, calm, calm', NEW d \in Devices, acked[d] # None
               PROVE  acked'[d] \in {acked[d], None}
    OBVIOUS
  <2>0. /\ Calm /\ TypeOK /\ JobKinds /\ acked \in Records
        /\ file[d] = acked[d]
    BY DEF Inv, TypeOK, Calm, Answered
  <2>1. ASSUME NEW e \in Devices, NEW k \in Keys, register(e, k)
        PROVE  acked'[d] \in {acked[d], None}
    <3>1. CASE acked' = acked
      BY <3>1
    <3>2. CASE /\ records["server"][e] = k /\ "server" \in fresh
               /\ acked' = [acked EXCEPT ![e] = k]
      <4>1. file = records["server"]
        BY <2>0, <2>1, <3>2 DEF register, Calm, Current, Procs
      <4> QED
        BY <2>0, <3>2, <4>1 DEF Records
    <3> QED
      BY <2>1, <3>1, <3>2 DEF register
  <2>2. ASSUME NEW p \in Procs, ReplaceFile(p)
        PROVE  acked'[d] \in {acked[d], None}
    BY <2>2 DEF ReplaceFile
  <2>3. ASSUME NEW p \in Procs, Return(p)
        PROVE  acked'[d] \in {acked[d], None}
    <3>1. CASE p = "server"
      <4>1. file[job[p].d] = job[p].k
        BY <2>0, <2>3, <3>1 DEF Return, Calm, Current, Registering, Steps
      <4>2. acked' = acked \/ acked' = [acked EXCEPT ![job[p].d] = job[p].k]
        BY <2>3 DEF Return
      <4> QED
        BY <2>0, <4>1, <4>2 DEF Records
    <3>2. CASE p = "cli"
      <4>1. job[p].op = "remove"
        BY <2>0, <2>3, <3>2, RunningJob, JobFacts DEF Return, Steps
      <4> QED
        BY <2>3, <4>1 DEF Return
    <3> QED
      BY <3>1, <3>2 DEF Procs
  <2>4. CASE UNCHANGED acked
    BY <2>4
  <2> QED
    BY <2>1, <2>2, <2>3, <2>4
    DEF Next, Saving, Load, Kill, OpenTmp, DumpTmp, SaveRaises, remove, clear,
        Unenroll
<1> QED
  BY <1>1, InvHolds, PTL DEF Spec, IdentityIsPinned
=============================================================================
