-------------------------- MODULE PassSupervisor --------------------------
(***************************************************************************)
(* The supervisor that runs each pass as a process of its own and replaces *)
(* the binary under them (deployment/src: supervisor, subprocess, handoff, *)
(* version).  The supervisor is called by one owner (`&mut self`); the     *)
(* processes exit, and the files on disk change, whenever they like.       *)
(***************************************************************************)
EXTENDS Integers, FiniteSets

CONSTANTS
  Passes,      \* pass identifiers
  Paths,       \* where binaries lie
  Versions,    \* their versions
  Schemas,     \* their shared-memory schemas
  Contents,    \* what a file can hold; equal contents have equal checksums
  MaxPid,      \* bound: processes spawned, numbered by their pid
  Absent       \* a path that names no readable file

ASSUME SupervisorAssumption == MaxPid \in Nat

VARIABLES
  config,     \* SupervisorConfig: path, version, schema
  processes,  \* ProcessManager's map, as the set of its records
  disk,       \* the file at each path
  live,       \* pids of the processes that have not exited
  image,      \* history: what each pid was started with
  nextPid

supervisorVars == <<config, processes, disk, live, image, nextPid>>

Pids == 1..MaxPid
Configs == [path : Paths, version : Versions, schema : Schemas]
\* A PassProcess.  Its state is Starting from the start and never changes.
Processes == [pass : Passes, pid : Pids, version : Versions, schema : Schemas]
\* A VersionedBinary as an operator hands it to deploy().
Binaries == [path : Paths, version : Versions, schema : Schemas, checksum : Contents]

SupervisorTypeOK ==
  /\ config \in Configs
  /\ processes \subseteq Processes
  /\ disk \in [Paths -> Contents \cup {Absent}]
  /\ live \subseteq Pids
  /\ image \in [live -> [pass : Passes, schema : Schemas]]
  /\ nextPid \in 1..(MaxPid + 1)
  /\ \A p \in processes : p.pid < nextPid

\* The first binary is the one the configuration names: nothing verified it.
SupervisorInit ==
  /\ config \in Configs
  /\ processes = {}
  /\ disk \in [Paths -> Contents \cup {Absent}]
  /\ live = {}
  /\ image = <<>>
  /\ nextPid = 1

get_process(pass) == {p \in processes : p.pass = pass}

\* HashMap::insert(): an earlier record of the pass is replaced.
add_process(p) == processes' = (processes \ get_process(p.pass)) \cup {p}

\* The spawn fails when the file is missing, and nothing changes.  It asks
\* nothing about an earlier process of the pass, nor about the checksum.
start_pass(pass) ==
  /\ nextPid \in Pids
  /\ disk[config.path] # Absent
  /\ add_process([pass |-> pass, pid |-> nextPid, version |-> config.version,
                  schema |-> config.schema])
  /\ live' = live \cup {nextPid}
  /\ image' = [pid \in live' |-> IF pid = nextPid THEN [pass |-> pass, schema |-> config.schema]
                                                 ELSE image[pid]]
  /\ nextPid' = nextPid + 1
  /\ UNCHANGED <<config, disk>>

Exit(pids) ==
  /\ live' = live \ pids
  /\ image' = [pid \in live' |-> image[pid]]
  /\ UNCHANGED <<config, processes, disk, nextPid>>

\* The recorded pid is sent SIGTERM and acts on it at once, later or, when it
\* has gone already, never; its record stays.
complete_pass(pass) == \E p \in get_process(pass) : Exit({p.pid})

\* A process ends by itself.
ProcessExits == \E pid \in live : Exit({pid})

\* Someone replaces, adds or removes a file.
FileChanges ==
  \E path \in Paths, content \in Contents \cup {Absent} :
    /\ disk' = [disk EXCEPT ![path] = content]
    /\ UNCHANGED <<config, processes, live, image, nextPid>>

verify(binary) == disk[binary.path] # Absent /\ disk[binary.path] = binary.checksum

\* The schema of the running supervisor is not compared.
AnySchema(binary) == TRUE

schema_compatible(binary) == binary.schema = config.schema

\* The handoff moves nothing and succeeds: old processes go on under the code
\* they were started with, the next ones get the new binary.
deploy(binary) ==
  /\ verify(binary)
  /\ schema_compatible(binary)
  /\ config' = [path |-> binary.path, version |-> binary.version, schema |-> binary.schema]
  /\ UNCHANGED <<processes, disk, live, image, nextPid>>

SupervisorNext ==
  \/ \E pass \in Passes : start_pass(pass) \/ complete_pass(pass)
  \/ ProcessExits
  \/ FileChanges
  \/ \E binary \in Binaries : deploy(binary)

SupervisorSpec == SupervisorInit /\ [][SupervisorNext]_supervisorVars

---------------------------------------------------------------------------
(* Properties                                                              *)

\* However many versions were deployed, every process that still runs, those
\* whose record a second start of their pass replaced included, lays out its
\* shared memory as the current binary does.
LiveProcessesShareSchema == \A pid \in live : image[pid].schema = config.schema

\* A pass has one record, that of its newest process: complete_pass() signals
\* that one and no older process of the pass.
NewestProcessIsRecorded ==
  \A p \in processes :
    /\ \A q \in processes : q.pass = p.pass => q = p
    /\ \A pid \in live : image[pid].pass = p.pass => pid <= p.pid

\* The processes of all versions agree on the memory they share, and the
\* supervisor's records are of the newest.
ProcessesAreSound == LiveProcessesShareSchema /\ NewestProcessIsRecorded

===========================================================================
